---- MODULE Spec2Model ----
(***************************************************************************)
(* chip-controller: a model of the EZ-Serial command layer (evkit_lib.py), *)
(* of the AD-structure codec it contains, and of the experiment drivers    *)
(* built on it (ble_final_experiment.py, real_time_control_status.py).     *)
(*                                                                         *)
(* Texts (Python str) are sequences of code points, byte strings (Python   *)
(* bytes) are sequences of 0..255.  Commands and replies are ASCII, so on  *)
(* the serial line one character is one byte; str.encode and bytes.decode  *)
(* are modelled where the code applies them to payload data (Utf8Encode,   *)
(* Utf8Decode).                                                            *)
(*                                                                         *)
(* The serial port and the module behind it are one record, the link.  A   *)
(* library function f is an operator f(k, ...) from the link k to the set  *)
(* of outcomes [k |-> the link after the call, res |-> what it returned],  *)
(* one outcome for each way the module may answer and the reply may be     *)
(* late.  An action that calls f takes one of these outcomes.              *)
(*                                                                         *)
(* Specifications: Spec (one library call on a link), SpecCodec (the AD    *)
(* codec), SpecParser (extract_error_code), SpecThreads (the threads of    *)
(* real_time_control_status.py), SpecFinal (ble_final_experiment.py),      *)
(* SpecFinalLive (the same, main() taking every step it has), SpecAppend   *)
(* (one append_payload call, with a second writer), SpecPrefix (the        *)
(* decoder on cut payloads), SpecStop (the two decoders on payloads with   *)
(* an end mark or a cut field).                                            *)
(***************************************************************************)
EXTENDS Integers, Sequences, FiniteSets, TLC

VARIABLES
    \* --- the AD codec: set_custom_adv_payload / get_adv_payload_details ---
    cpc,            \* position of the codec run: "build", "encoded", "decoded"
    F,              \* the fields handed to the encoder, each <<ad_type, data>>
    raw_payload,    \* the hex payload made of the encoded fields
    fields,         \* the field list the decoder returns
    printed_fields, \* the field list print_adv_payload_details prints
    extracted,      \* what the callers of the decoder take from the fields
    \* --- the response parser: extract_error_code ---
    ppc,            \* "text", "parsed"
    response,       \* the response text handed to the parser
    parsed,         \* <<success, error_code>>
    \* --- the serial link and a caller of the library ---
    ev_kit,         \* the link: pending bytes, I/O of the current call, module state,
                    \* the commands the module refused
    op,             \* the library call made: <<name, arguments...>>
    result,         \* what the last call returned
    \* --- ble_final_experiment.py ---
    fpc,            \* position in main()
    current_text_offset,
    local_custom_payload,
    round_count,
    current_custom_data_size,
    filler,             \* append_payload's filler
    append_details,     \* append_payload's payload_details
    passes,             \* loop passes since the last payload update
    append_n,           \* the append_size append_payload is called with
    second_writer,      \* command another writer sent during an append_payload
    \* --- real_time_control_status.py ---
    tpc,            \* position of each thread
    display_lock,   \* holder of display_lock ("none" when free)
    adv_interval_ms,
    display_mode,
    in_flight       \* threads between the write and the read of an exchange

codecVars  == <<cpc, F, raw_payload, fields, printed_fields, extracted>>
parserVars == <<ppc, response, parsed>>
linkVars   == <<ev_kit, op, result>>
finalVars  == <<fpc, current_text_offset, local_custom_payload, round_count,
                current_custom_data_size, filler, append_details, passes,
                append_n, second_writer>>
threadVars == <<tpc, display_lock, adv_interval_ms, display_mode, in_flight>>
vars == <<codecVars, parserVars, linkVars, finalVars, threadVars>>

-----------------------------------------------------------------------------
(* Characters *)

AsciiPrintable == <<
    " ", "!", "\"", "#", "$", "%", "&", "'", "(", ")", "*", "+", ",", "-", ".", "/",
    "0", "1", "2", "3", "4", "5", "6", "7", "8", "9", ":", ";", "<", "=", ">", "?",
    "@", "A", "B", "C", "D", "E", "F", "G", "H", "I", "J", "K", "L", "M", "N", "O",
    "P", "Q", "R", "S", "T", "U", "V", "W", "X", "Y", "Z", "[", "\\", "]", "^", "_",
    "BACKTICK", "a", "b", "c", "d", "e", "f", "g", "h", "i", "j", "k", "l", "m", "n", "o",
    "p", "q", "r", "s", "t", "u", "v", "w", "x", "y", "z", "{", "|", "}", "~" >>

\* ord(): the code point of a character written as a one-character string;
\* "EMDASH" stands for U+2014, the only non-ASCII character of the sources.
OrdTable ==
    [c \in {AsciiPrintable[i] : i \in 1..95} \cup {"\r", "\n", "EMDASH"} |->
        IF c = "\r" THEN 13
        ELSE IF c = "\n" THEN 10
        ELSE IF c = "EMDASH" THEN 8212
        ELSE 31 + (CHOOSE i \in 1..95 : AsciiPrintable[i] = c)]

Ord(c) == OrdTable[c]

\* A text literal: the code points of a tuple of one-character strings.
Str(chars) == [i \in 1..Len(chars) |-> OrdTable[chars[i]]]

IsHexDigit(c) == (c >= 48 /\ c <= 57) \/ (c >= 65 /\ c <= 70) \/ (c >= 97 /\ c <= 102)

\* The value of one hexadecimal digit, as int(., 16) reads it.
HexVal(c) == IF c <= 57 THEN c - 48 ELSE IF c <= 70 THEN c - 55 ELSE c - 87

\* The uppercase hexadecimal digit of 0..15, as the X format and .hex().upper() write it.
HexDigit(v) == IF v < 10 THEN 48 + v ELSE 55 + v

RECURSIVE Pow16(_)
Pow16(k) == IF k = 0 THEN 1 ELSE 16 * Pow16(k - 1)

\* Number of hexadecimal digits of n >= 0.
HexWidth(n) == CHOOSE k \in 1..8 : n < Pow16(k) /\ (k = 1 \/ n >= Pow16(k - 1))

\* f"{n:0wX}": at least w uppercase hex digits, more when n needs them.
FormatHex(n, w) ==
    LET d == IF HexWidth(n) > w THEN HexWidth(n) ELSE w
    IN  [i \in 1..d |-> HexDigit((n \div Pow16(d - i)) % 16)]

\* int(s, 16) of a string of hex digits.
ParseHex(s) ==
    LET n == Len(s)
        RECURSIVE val(_)
        val(i) == IF i = 0 THEN 0 ELSE 16 * val(i - 1) + HexVal(s[i])
    IN  val(n)

\* bytes.hex().upper()
BytesToHex(b) ==
    [i \in 1..(2 * Len(b)) |->
        IF i % 2 = 1 THEN HexDigit(b[(i + 1) \div 2] \div 16)
                     ELSE HexDigit(b[i \div 2] % 16)]

\* bytes.fromhex(h) for a string of hex digits: raises ValueError when the
\* number of digits is odd.
FromHexRaises(h) == Len(h) % 2 = 1

FromHex(h) == [i \in 1..(Len(h) \div 2) |-> 16 * HexVal(h[2 * i - 1]) + HexVal(h[2 * i])]

-----------------------------------------------------------------------------
(* UTF-8 *)

\* Concatenation of the sequences parts[lo..hi].
RECURSIVE ConcatRange(_, _, _)
ConcatRange(parts, lo, hi) ==
    IF lo > hi THEN << >>
    ELSE IF lo = hi THEN parts[lo]
    ELSE LET mid == (lo + hi) \div 2
         IN  ConcatRange(parts, lo, mid) \o ConcatRange(parts, mid + 1, hi)

Concat(parts) == ConcatRange(parts, 1, Len(parts))

\* The UTF-8 bytes of one code point.
Utf8Char(cp) ==
    IF cp < 128 THEN <<cp>>
    ELSE IF cp < 2048 THEN <<192 + (cp \div 64), 128 + (cp % 64)>>
    ELSE IF cp < 65536 THEN
        <<224 + (cp \div 4096), 128 + ((cp \div 64) % 64), 128 + (cp % 64)>>
    ELSE <<240 + (cp \div 262144), 128 + ((cp \div 4096) % 64),
           128 + ((cp \div 64) % 64), 128 + (cp % 64)>>

\* str.encode(utf-8)
Utf8Encode(s) == Concat([i \in 1..Len(s) |-> Utf8Char(s[i])])

IsCont(b) == b >= 128 /\ b <= 191

\* Length of the sequence a lead byte announces; 0 for a byte that starts none.
Utf8Width(b) ==
    IF b < 128 THEN 1
    ELSE IF b >= 194 /\ b <= 223 THEN 2
    ELSE IF b >= 224 /\ b <= 239 THEN 3
    ELSE IF b >= 240 /\ b <= 244 THEN 4
    ELSE 0

SecondOk(lead, b) ==
    IF lead = 224 THEN b >= 160 /\ b <= 191
    ELSE IF lead = 237 THEN b >= 128 /\ b <= 159
    ELSE IF lead = 240 THEN b >= 144 /\ b <= 191
    ELSE IF lead = 244 THEN b >= 128 /\ b <= 143
    ELSE IsCont(b)

\* Bytes the decoder consumes for the unit starting at i: the lead byte and
\* the continuation bytes that validly follow it (all of them for a complete
\* character, fewer for a truncated or broken one).
UnitLen(bs, i) ==
    LET w == Utf8Width(bs[i])
        ok(n) == i + n <= Len(bs) /\
                 (IF n = 1 THEN SecondOk(bs[i], bs[i + n]) ELSE IsCont(bs[i + n]))
    IN  IF w <= 1 THEN 1
        ELSE IF ~ok(1) THEN 1
        ELSE IF w = 2 \/ ~ok(2) THEN 2
        ELSE IF w = 3 \/ ~ok(3) THEN 3
        ELSE 4

UnitStart(bs, i) ==
    ~ \E j \in {i - 1, i - 2, i - 3} :
        j >= 1 /\ Utf8Width(bs[j]) >= 2 /\ i - j < UnitLen(bs, j)

UnitComplete(bs, i) == Utf8Width(bs[i]) >= 1 /\ UnitLen(bs, i) = Utf8Width(bs[i])

UnitChar(bs, i) ==
    LET w == Utf8Width(bs[i])
    IN  IF w = 1 THEN bs[i]
        ELSE IF w = 2 THEN (bs[i] % 32) * 64 + (bs[i + 1] % 64)
        ELSE IF w = 3 THEN (bs[i] % 16) * 4096 + (bs[i + 1] % 64) * 64 + (bs[i + 2] % 64)
        ELSE (bs[i] % 8) * 262144 + (bs[i + 1] % 64) * 4096
             + (bs[i + 2] % 64) * 64 + (bs[i + 3] % 64)

\* bytes.decode(utf-8, errors=replace): every broken unit becomes U+FFFD.
Utf8Decode(bs) ==
    LET isStart(i) == UnitStart(bs, i)
        starts == SelectSeq([i \in 1..Len(bs) |-> i], isStart)
    IN  [k \in 1..Len(starts) |->
            IF UnitComplete(bs, starts[k]) THEN UnitChar(bs, starts[k]) ELSE 65533]

\* s.startswith(p)
StartsWith(s, p) == Len(s) >= Len(p) /\ SubSeq(s, 1, Len(p)) = p

\* s[k:] (k >= 0, 0-based)
Drop(s, k) == IF k >= Len(s) THEN << >> ELSE SubSeq(s, k + 1, Len(s))

\* s[:k]
Take(s, k) == IF k >= Len(s) THEN s ELSE SubSeq(s, 1, k)

\* s[a:b] (0-based, b exclusive), as Python clips it
Slice(s, a, b) == Drop(Take(s, b), a)

-----------------------------------------------------------------------------
(* Text scanning (the regular expressions of evkit_lib.py) *)

MinOf(S) == CHOOSE i \in S : \A j \in S : i <= j

\* End (exclusive) of the maximal run of hex digits that starts at position a.
HexRunEnd(text, a) ==
    LET stops == {i \in a..Len(text) : ~IsHexDigit(text[i])}
    IN  IF stops = {} THEN Len(text) + 1 ELSE MinOf(stops)

\* End (exclusive) of the maximal run of characters other than ',' from a.
NonCommaRunEnd(text, a) ==
    LET stops == {i \in a..Len(text) : text[i] = 44}
    IN  IF stops = {} THEN Len(text) + 1 ELSE MinOf(stops)

\* Where the status group starts when  @R,[0-9A-Fa-f]+,[^,]+,([0-9A-Fa-f]{4})
\* matches at position p, and 0 when it does not.  Both runs are greedy and
\* each must be followed by ',', so only the maximal runs can match.
ReplyStatusAt(text, p) ==
    IF ~(p + 2 <= Len(text) /\ text[p] = 64 /\ text[p + 1] = 82 /\ text[p + 2] = 44)
    THEN 0
    ELSE LET e1 == HexRunEnd(text, p + 3)
         IN  IF ~(e1 > p + 3 /\ e1 <= Len(text) /\ text[e1] = 44) THEN 0
             ELSE LET e2 == NonCommaRunEnd(text, e1 + 1)
                  IN  IF ~(e2 > e1 + 1 /\ e2 <= Len(text)) THEN 0
                      ELSE IF e2 + 4 <= Len(text)
                              /\ \A k \in 1..4 : IsHexDigit(text[e2 + k])
                           THEN e2 + 1
                           ELSE 0

\* re.search: the leftmost position where the reply pattern matches (0: none).
ReplySearch(text) ==
    LET hits == {p \in 1..Len(text) : ReplyStatusAt(text, p) # 0}
    IN  IF hits = {} THEN 0 ELSE MinOf(hits)

\* A parser that takes the last match of the reply pattern instead of the
\* first, and one that reports a failure when nothing matches.
extract_error_code_last(text) ==
    LET hits == {p \in 1..Len(text) : ReplyStatusAt(text, p) # 0}
        error_code ==
            IF hits # {}
            THEN LET p == CHOOSE i \in hits : \A j \in hits : j <= i
                     g == ReplyStatusAt(text, p)
                 IN  ParseHex(SubSeq(text, g, g + 3))
            ELSE 0
    IN  <<error_code = 0, error_code>>

extract_error_code_strict(text) ==
    LET p == ReplySearch(text)
    IN  IF p # 0
        THEN LET g == ReplyStatusAt(text, p)
                 error_code == ParseHex(SubSeq(text, g, g + 3))
             IN  <<error_code = 0, error_code>>
        ELSE <<FALSE, 61166>>

\* extract_error_code(response) -> <<success, error_code>>
extract_error_code(text) ==
    LET p == ReplySearch(text)
        error_code ==
            IF p # 0
            THEN LET g == ReplyStatusAt(text, p) IN ParseHex(SubSeq(text, g, g + 3))
            ELSE 0
    IN  <<error_code = 0, error_code>>

\* re.search(r"D=([0-9A-Fa-f]+)", response): the captured hex run, "" when
\* the pattern is not found (m is None).
PayloadSearch(text) ==
    LET hits == {p \in 1..Len(text) :
                    p + 2 <= Len(text) /\ text[p] = 68 /\ text[p + 1] = 61
                    /\ IsHexDigit(text[p + 2])}
    IN  IF hits = {} THEN << >>
        ELSE LET p == MinOf(hits)
             IN  SubSeq(text, p + 2, HexRunEnd(text, p + 2) - 1)

-----------------------------------------------------------------------------
(* AD structures *)

MANUFACTURER_SPECIFIC_DATA == 255
SHORTENED_LOCAL_NAME == 8

company_id == Str(<<"0", "9", "0", "0">>)

\* An encoder whose length byte counts the value bytes without the type byte;
\* the round trip of the codec does not survive it.
custom_adv_payload_value_length(data, ad_type) ==
    LET data_bytes == Utf8Encode(data)
    IN  IF ad_type = MANUFACTURER_SPECIFIC_DATA
        THEN FormatHex(Len(data_bytes) + 2, 2) \o FormatHex(ad_type, 2)
             \o company_id \o BytesToHex(data_bytes)
        ELSE FormatHex(Len(data_bytes), 2) \o FormatHex(ad_type, 2)
             \o BytesToHex(data_bytes)

\* The AD structure set_custom_adv_payload builds for (data, ad_type).
custom_adv_payload(data, ad_type) ==
    LET data_bytes == Utf8Encode(data)
    IN  IF ad_type = MANUFACTURER_SPECIFIC_DATA
        THEN FormatHex(Len(data_bytes) + 3, 2) \o FormatHex(ad_type, 2)
             \o company_id \o BytesToHex(data_bytes)
        ELSE FormatHex(Len(data_bytes) + 1, 2) \o FormatHex(ad_type, 2)
             \o BytesToHex(data_bytes)

\* A parsing loop that takes a length byte 01 for the end of the fields, as
\* it takes 00.
RECURSIVE ParseFieldsFrom_end1(_, _, _)
ParseFieldsFrom_end1(raw, i, acc) ==
    IF ~(i < Len(raw)) THEN acc
    ELSE IF i + 2 > Len(raw) THEN acc
    ELSE LET field_length == ParseHex(SubSeq(raw, i + 1, i + 2))
         IN  IF field_length <= 1 THEN acc
             ELSE IF i + 4 > Len(raw) THEN acc
             ELSE LET ad_type == ParseHex(SubSeq(raw, i + 3, i + 4))
                      data_hex_length == (field_length - 1) * 2
                      j == i + 4
                  IN  IF j + data_hex_length > Len(raw)
                      THEN Append(acc, <<field_length, ad_type, Drop(raw, j)>>)
                      ELSE ParseFieldsFrom_end1(raw, j + data_hex_length,
                               Append(acc, <<field_length, ad_type,
                                             Slice(raw, j, j + data_hex_length)>>))

\* A parsing loop that does not look for the type byte before it reads it:
\* a field cut after its length byte is returned with the type 0.
RECURSIVE ParseFieldsFrom_untyped(_, _, _)
ParseFieldsFrom_untyped(raw, i, acc) ==
    IF ~(i < Len(raw)) THEN acc
    ELSE IF i + 2 > Len(raw) THEN acc
    ELSE LET field_length == ParseHex(SubSeq(raw, i + 1, i + 2))
         IN  IF field_length = 0 THEN acc
             ELSE IF i + 4 > Len(raw) THEN Append(acc, <<field_length, 0, << >> >>)
             ELSE LET ad_type == ParseHex(SubSeq(raw, i + 3, i + 4))
                      data_hex_length == (field_length - 1) * 2
                      j == i + 4
                  IN  IF j + data_hex_length > Len(raw)
                      THEN Append(acc, <<field_length, ad_type, Drop(raw, j)>>)
                      ELSE ParseFieldsFrom_untyped(raw, j + data_hex_length,
                               Append(acc, <<field_length, ad_type,
                                             Slice(raw, j, j + data_hex_length)>>))

\* A parsing loop that, for a field longer than what is left, takes
\* everything from the start of the field as its data.
RECURSIVE ParseFieldsFrom_whole(_, _, _)
ParseFieldsFrom_whole(raw, i, acc) ==
    IF ~(i < Len(raw)) THEN acc
    ELSE IF i + 2 > Len(raw) THEN acc
    ELSE LET field_length == ParseHex(SubSeq(raw, i + 1, i + 2))
         IN  IF field_length = 0 THEN acc
             ELSE IF i + 4 > Len(raw) THEN acc
             ELSE LET ad_type == ParseHex(SubSeq(raw, i + 3, i + 4))
                      data_hex_length == (field_length - 1) * 2
                      j == i + 4
                  IN  IF j + data_hex_length > Len(raw)
                      THEN Append(acc, <<field_length, ad_type, Drop(raw, i)>>)
                      ELSE ParseFieldsFrom_whole(raw, j + data_hex_length,
                               Append(acc, <<field_length, ad_type,
                                             Slice(raw, j, j + data_hex_length)>>))

\* The parsing loop of get_adv_payload_details from offset i (0-based) with
\* the fields found so far; a field is <<field_length, ad_type, field_data>>.
RECURSIVE ParseFieldsFrom(_, _, _)
ParseFieldsFrom(raw, i, acc) ==
    IF ~(i < Len(raw)) THEN acc
    ELSE IF i + 2 > Len(raw) THEN acc
    ELSE LET field_length == ParseHex(SubSeq(raw, i + 1, i + 2))
         IN  IF field_length = 0 THEN acc
             ELSE IF i + 4 > Len(raw) THEN acc
             ELSE LET ad_type == ParseHex(SubSeq(raw, i + 3, i + 4))
                      data_hex_length == (field_length - 1) * 2
                      j == i + 4
                  IN  IF j + data_hex_length > Len(raw)
                      THEN Append(acc, <<field_length, ad_type, Drop(raw, j)>>)
                      ELSE ParseFieldsFrom(raw, j + data_hex_length,
                               Append(acc, <<field_length, ad_type,
                                             Slice(raw, j, j + data_hex_length)>>))

ParseFields(raw) == ParseFieldsFrom(raw, 0, << >>)

-----------------------------------------------------------------------------
(* The serial link (ev_kit) and the module behind it *)

read_buffer_size == 512

\* Bounds of the model.
MaxFaults == 1     \* reads of one run that return before the reply has all arrived
MaxLate   == 3     \* characters of a reply that may arrive after such a read
MaxErrors == 1     \* commands of one run the module answers with an error status

\* Status codes the module answers with: success, 0x020C (the error the
\* extended_adv_config docstring names) and 0xEEEE (EZS_ERR_UNKNOWN).
DeviceStatuses == {0, 524, 61166}

CRLF == Str(<<"\r", "\n">>)

FactoryAcp == Str(<<
      "P", "=", "0", "1", ",", "M", "=", "0", "0", ",", "T", "=", "0", "8", ",", "H",
      "=", "0", "0", ",", "I", "=", "0", "0", "3", "0", ",", "C", "=", "0", "7", ",",
      "L", "=", "0", "0", ",", "O", "=", "0", "0", "0", "0", ",", "F", "=", "0", "2",
      ",", "A", "=", "0", "0", "0", "0", "0", "0", "0", "0", "0", "0", "0", "0", ",",
      "Y", "=", "0", "0", ",", "E", "=", "0", "0", ",", "S", "=", "0", "0", ",", "D",
      "=", "0", "0", ",", "N", "=", "0", "0", "1", "8" >>)

\* The command mnemonic: the text before the first ','.
Mnemonic(command) == SubSeq(command, 1, NonCommaRunEnd(command, 1) - 1)

\* The value of parameter ",<key>=" of a command line ("" when absent).
ParamValue(command, key) ==
    LET hits == {p \in 1..Len(command) :
                    p + 2 <= Len(command) /\ command[p] = 44
                    /\ command[p + 1] = key /\ command[p + 2] = 61}
    IN  IF hits = {} THEN << >>
        ELSE LET p == MinOf(hits)
             IN  SubSeq(command, p + 3, NonCommaRunEnd(command, p + 3) - 1)

\* The module executes one command line with the given status: its state
\* after the command and the reply it sends.  SEAD with T=0 overwrites the
\* advertising payload with D, any other T appends D to it; SACP stores the
\* parameters, GEAD and GACP report payload and parameters, /RBT and /RFAC
\* revert both.  A command answered with an error status changes nothing.
ModuleExec(k, command, status) ==
    LET mn      == Mnemonic(command)
        is(name) == mn = Str(name)
        D       == ParamValue(command, 68)
        T       == ParamValue(command, 84)
        adv2    == IF status # 0 THEN k.adv
                   ELSE IF is(<<"S", "E", "A", "D">>)
                        THEN IF T # << >> /\ ParseHex(T) = 0 THEN D ELSE k.adv \o D
                   ELSE IF is(<<"/", "R", "B", "T">>) \/ is(<<"/", "R", "F", "A", "C">>)
                        THEN << >>
                   ELSE k.adv
        acp2    == IF status # 0 THEN k.acp
                   ELSE IF is(<<"S", "A", "C", "P">>) THEN Drop(command, 5)
                   ELSE IF is(<<"/", "R", "B", "T">>) \/ is(<<"/", "R", "F", "A", "C">>)
                        THEN FactoryAcp
                   ELSE k.acp
        extra   == IF status # 0 THEN << >>
                   ELSE IF is(<<"G", "E", "A", "D">>) THEN Str(<<",", "D", "=">>) \o k.adv
                   ELSE IF is(<<"G", "A", "C", "P">>) THEN <<44>> \o k.acp
                   ELSE << >>
        reply   == Str(<<"@", "R", ",", "0", "0", "0", "1", ",">>) \o mn \o <<44>>
                   \o FormatHex(status, 4) \o extra \o CRLF
    IN  [adv |-> adv2, acp |-> acp2, reply |-> reply]

\* ev_kit.write(packet): the packet goes out (one write) and the module's
\* reply joins the bytes on their way to the host.  The link keeps the command
\* lines the module refused (refused), in order.
Write(k, packet, status) ==
    CHOOSE w \in { [k EXCEPT !.rx = k.rx \o m.reply, !.adv = m.adv, !.acp = m.acp,
                             !.io = Append(k.io, <<"write", packet>>),
                             !.errors = IF status = 0 THEN k.errors ELSE k.errors + 1,
                             !.refused = IF status = 0 THEN k.refused
                                         ELSE Append(k.refused,
                                                     SubSeq(packet, 1, Len(packet) - 2))] :
                     m \in {ModuleExec(k, SubSeq(packet, 1, Len(packet) - 2), status)} } :
        TRUE

\* ev_kit.read(size): one read, which returns at most size of the pending
\* bytes; late > 0 of them arrive only after the timeout of this read
\* (late = -1: none arrives in time) and stay pending for the next read.
Read(k, size, late) ==
    LET arrived == IF late = -1 \/ late >= Len(k.rx) THEN 0 ELSE Len(k.rx) - late
        n       == IF arrived > size THEN size ELSE arrived
    IN  [k    |-> [k EXCEPT !.rx = Drop(k.rx, n),
                            !.io = Append(k.io, <<"read", size>>),
                            !.faults = IF late = 0 THEN k.faults ELSE k.faults + 1],
         data |-> Take(k.rx, n)]

\* What may happen to one exchange: the module's status, the reply's delay.
Outcomes(k) ==
    {[status |-> s, late |-> l] :
        s \in IF k.errors < MaxErrors THEN DeviceStatuses ELSE {0},
        l \in IF k.faults < MaxFaults THEN (-1)..MaxLate ELSE {0}}

\* An exchange that reads a second time when the first read returns nothing.
send_custom_command_text_reread(k, command) ==
    UNION { UNION { UNION { { [k |-> r2.k,
                               res |-> extract_error_code(r2.data) \o <<r2.data>>] :
                                r2 \in {IF r.data = << >>
                                        THEN Read(r.k, read_buffer_size, 0) ELSE r} } :
                            r \in {Read(w, read_buffer_size, o.late)} } :
                    w \in {Write(k, command \o CRLF, o.status)} } :
            o \in Outcomes(k) }

\* send_custom_command_text(command): every result <<success, error_code,
\* response>> the call may return, with the link as the call leaves it: w is
\* the link after the write, r the read and the link after it.
send_custom_command_text(k, command) ==
    UNION { UNION { { [k |-> r.k, res |-> extract_error_code(r.data) \o <<r.data>>] :
                        r \in {Read(w, read_buffer_size, o.late)} } :
                    w \in {Write(k, command \o CRLF, o.status)} } :
            o \in Outcomes(k) }

\* get_firmware_version, get_ping, reboot_device, reset_factory and the
\* /A, /CA, /AX, /CAX helpers: the same exchange with a fixed command.
fixed_command(k, command) ==
    UNION { UNION { { [k |-> r.k, res |-> extract_error_code(r.data) \o <<r.data>>] :
                        r \in {Read(w, read_buffer_size, o.late)} } :
                    w \in {Write(k, command \o CRLF, o.status)} } :
            o \in Outcomes(k) }

reboot_device(k) == fixed_command(k, Str(<<"/", "R", "B", "T">>))

\* set_device_name_extended(device_name)
set_device_name_extended(k, device_name) ==
    LET name_bytes == Utf8Encode(device_name)
        payload == FormatHex(Len(name_bytes) + 1, 2) \o Str(<<"0", "8">>)
                   \o BytesToHex(name_bytes)
    IN  send_custom_command_text(k,
            Str(<<"S", "E", "A", "D", ",", "T", "=", "1", ",", "D", "=">>) \o payload)

\* The SACP command line of extended_adv_config with its default arguments
\* and the given I.
SacpCommand(I) ==
    Str(<<
      "S", "A", "C", "P", ",", "P", "=", "0", "1", ",", "M", "=", "0", "0", ",", "T",
      "=", "0", "8", ",", "H", "=", "0", "0", ",", "I", "=" >>)
    \o I \o
    Str(<<
      ",", "C", "=", "0", "7", ",", "L", "=", "0", "0", ",", "O", "=", "0", "0", "0",
      "0", ",", "F", "=", "0", "2", ",", "A", "=", "0", "0", "0", "0", "0", "0", "0",
      "0", "0", "0", "0", "0", ",", "Y", "=", "0", "0", ",", "E", "=", "0", "0", ",",
      "S", "=", "0", "0", ",", "D", "=", "0", "0", ",", "N", "=", "0", "0", "1", "8" >>)

\* An extended_adv_config that returns the result of its last exchange, /CA.
extended_adv_config_last(k, I) ==
    UNION { UNION { { [k |-> c.k, res |-> c.res] :
                        c \in send_custom_command_text(b.k, Str(<<"/", "C", "A">>)) } :
                    b \in send_custom_command_text(a.k, SacpCommand(I)) } :
            a \in send_custom_command_text(k, Str(<<"/", "C", "A", "X">>)) }

\* extended_adv_config(I=...): /CAX, SACP, /CA; the SACP result is returned.
extended_adv_config(k, I) ==
    UNION { UNION { { [k |-> c.k, res |-> b.res] :
                        c \in send_custom_command_text(b.k, Str(<<"/", "C", "A">>)) } :
                    b \in send_custom_command_text(a.k, SacpCommand(I)) } :
            a \in send_custom_command_text(k, Str(<<"/", "C", "A", "X">>)) }

IntervalOutOfRange == Str(<<
      "I", "n", "t", "e", "r", "v", "a", "l", " ", "o", "u", "t", " ", "o", "f", " ",
      "r", "a", "n", "g", "e", ".", " ", "M", "u", "s", "t", " ", "b", "e", " ", "b",
      "e", "t", "w", "e", "e", "n", " ", "2", "0", " ", "m", "s", " ", "a", "n", "d",
      " ", "1", "0", "2", "4", "0", " ", "m", "s", "." >>)

\* A conversion that cuts the fraction off instead of rounding.
IntervalUnits_floor(interval_ms) == (16 * interval_ms) \div 10

\* int(round(interval_ms / 0.625)) for an integer interval_ms: 8 * ms / 5
\* is never half-way between two integers, so round() takes the nearest.
IntervalUnits(interval_ms) == (16 * interval_ms + 5) \div 10

\* A range check made after advertising has been stopped.
set_adv_interval_stop_first(k, interval_ms) ==
    IF interval_ms < 20 \/ interval_ms > 10240
    THEN { [k |-> a.k, res |-> <<FALSE, 61166, IntervalOutOfRange>>] :
           a \in send_custom_command_text(k, Str(<<"/", "C", "A", "X">>)) }
    ELSE extended_adv_config(k, FormatHex(IntervalUnits(interval_ms), 4))

\* A range check that rejects with error code 0.
set_adv_interval_code_zero(k, interval_ms) ==
    IF interval_ms < 20 \/ interval_ms > 10240
    THEN {[k |-> k, res |-> <<FALSE, 0, IntervalOutOfRange>>]}
    ELSE extended_adv_config(k, FormatHex(IntervalUnits(interval_ms), 4))

\* set_adv_interval(interval_ms)
set_adv_interval(k, interval_ms) ==
    IF interval_ms < 20 \/ interval_ms > 10240
    THEN {[k |-> k, res |-> <<FALSE, 61166, IntervalOutOfRange>>]}
    ELSE extended_adv_config(k, FormatHex(IntervalUnits(interval_ms), 4))

-----------------------------------------------------------------------------
(* Library functions built on the exchange *)

\* A get_adv_payload_details that does not look at the success of GEAD.
get_adv_payload_details_unchecked(k) ==
    { LET raw == PayloadSearch(r.res[3])
      IN  IF raw = << >> THEN [k |-> r.k, res |-> << << >>, << >> >>]
          ELSE [k |-> r.k, res |-> <<raw, ParseFields(raw)>>] :
      r \in send_custom_command_text(k, Str(<<"G", "E", "A", "D">>)) }

\* get_adv_payload_details(): every <<raw_payload, fields>> the call may
\* return, with the link as the call leaves it.
get_adv_payload_details(k) ==
    { LET raw == PayloadSearch(r.res[3])
      IN  IF ~r.res[1] THEN [k |-> r.k, res |-> << << >>, << >> >>]
          ELSE IF raw = << >> THEN [k |-> r.k, res |-> << << >>, << >> >>]
          ELSE [k |-> r.k, res |-> <<raw, ParseFields(raw)>>] :
      r \in send_custom_command_text(k, Str(<<"G", "E", "A", "D">>)) }

\* A set_custom_adv_payload that never erases.
set_custom_adv_payload_no_erase(k, data, ad_type, append) ==
    send_custom_command_text(k,
        Str(<<"S", "E", "A", "D", ",", "T", "=", "0", "1", ",", "D", "=">>)
        \o custom_adv_payload(data, ad_type))

\* set_custom_adv_payload(data, ad_type, append)
set_custom_adv_payload(k, data, ad_type, append) ==
    LET sead_cmd == Str(<<"S", "E", "A", "D", ",", "T", "=", "0", "1", ",", "D", "=">>)
                    \o custom_adv_payload(data, ad_type)
        cleared  == IF append THEN {k}
                    ELSE { c.k : c \in send_custom_command_text(k,
                              Str(<<"S", "E", "A", "D", ",", "T", "=", "0", "0", ",", "D", "=">>)) }
    IN  UNION { send_custom_command_text(k1, sead_cmd) : k1 \in cleared }

\* The text shared by base_message (evkit_lib.py) and DEFAULT_MESSAGE
\* (ble_final_experiment.py).
base_message == Str(<<
      "D", "i", "v", "i", "n", "e", " ", "M", "a", "n", "d", "a", "t", "e", " ", "f",
      "o", "r", " ", "J", "u", "s", "t", "i", "c", "e", ":", " ", "C", "y", "r", "u",
      "s", " ", "p", "o", "r", "t", "r", "a", "y", "s", " ", "h", "i", "s", " ", "c",
      "o", "n", "q", "u", "e", "s", "t", " ", "a", "s", " ", "b", "e", "i", "n", "g",
      " ", "g", "u", "i", "d", "e", "d", " ", "b", "y", " ", "t", "h", "e", " ", "g",
      "o", "d", "s", "EMDASH", "p", "a", "r", "t", "i", "c", "u", "l", "a", "r", "l", "y",
      " ", "M", "a", "r", "d", "u", "k", "EMDASH", "s", "u", "g", "g", "e", "s", "t", "i",
      "n", "g", " ", "t", "h", "a", "t", " ", "h", "i", "s", " ", "r", "u", "l", "e",
      " ", "i", "s", " ", "d", "i", "v", "i", "n", "e", "l", "y", " ", "s", "a", "n",
      "c", "t", "i", "o", "n", "e", "d", " ", "t", "o", " ", "b", "r", "i", "n", "g",
      " ", "o", "r", "d", "e", "r", " ", "a", "n", "d", " ", "r", "e", "l", "i", "e",
      "f", ".", " ", "R", "e", "s", "t", "o", "r", "a", "t", "i", "o", "n", " ", "a",
      "n", "d", " ", "L", "i", "b", "e", "r", "a", "t", "i", "o", "n", ":", " ", "H",
      "e", " ", "e", "m", "p", "h", "a", "s", "i", "z", "e", "s", " ", "t", "h", "a",
      "t", " ", "h", "e", " ", "h", "a", "s", " ", "l", "i", "b", "e", "r", "a", "t",
      "e", "d", " ", "p", "e", "o", "p", "l", "e", " ", "f", "r", "o", "m", " ", "t",
      "h", "e", " ", "h", "a", "r", "d", "s", "h", "i", "p", "s", " ", "a", "n", "d",
      " ", "o", "p", "p", "r", "e", "s", "s", "i", "o", "n", "s", " ", "i", "m", "p",
      "o", "s", "e", "d", " ", "b", "y", " ", "p", "r", "e", "v", "i", "o", "u", "s",
      " ", "r", "e", "g", "i", "m", "e", "s", ".", " ", "R", "e", "s", "p", "e", "c",
      "t", " ", "f", "o", "r", " ", "C", "u", "l", "t", "u", "r", "a", "l", " ", "a",
      "n", "d", " ", "R", "e", "l", "i", "g", "i", "o", "u", "s", " ", "D", "i", "v",
      "e", "r", "s", "i", "t", "y", ":", " ", "C", "y", "r", "u", "s", " ", "u", "n",
      "d", "e", "r", "s", "c", "o", "r", "e", "s", " ", "t", "h", "e", " ", "i", "m",
      "p", "o", "r", "t", "a", "n", "c", "e", " ", "o", "f", " ", "a", "l", "l", "o",
      "w", "i", "n", "g", " ", "c", "o", "n", "q", "u", "e", "r", "e", "d", " ", "p",
      "e", "o", "p", "l", "e", "s", " ", "t", "o", " ", "h", "o", "n", "o", "r", " ",
      "t", "h", "e", "i", "r", " ", "o", "w", "n", " ", "t", "r", "a", "d", "i", "t",
      "i", "o", "n", "s", " ", "a", "n", "d", " ", "r", "e", "l", "i", "g", "i", "o",
      "u", "s", " ", "p", "r", "a", "c", "t", "i", "c", "e", "s", ".", " ", "A", " ",
      "N", "e", "w", " ", "E", "r", "a", " ", "o", "f", " ", "T", "o", "l", "e", "r",
      "a", "n", "c", "e", ":", " ", "B", "y", " ", "i", "m", "p", "l", "e", "m", "e",
      "n", "t", "i", "n", "g", " ", "p", "o", "l", "i", "c", "i", "e", "s", " ", "t",
      "h", "a", "t", " ", "f", "o", "s", "t", "e", "r", "e", "d", " ", "f", "r", "e",
      "e", "d", "o", "m", " ", "o", "f", " ", "w", "o", "r", "s", "h", "i", "p", " ",
      "a", "n", "d", " ", "t", "h", "e", " ", "r", "i", "g", "h", "t", " ", "t", "o",
      " ", "r", "e", "t", "u", "r", "n", " ", "h", "o", "m", "e", ",", " ", "C", "y",
      "r", "u", "s", " ", "l", "a", "i", "d", " ", "t", "h", "e", " ", "g", "r", "o",
      "u", "n", "d", "w", "o", "r", "k", " ", "f", "o", "r", " ", "a", " ", "m", "o",
      "r", "e", " ", "j", "u", "s", "t", " ", "a", "n", "d", " ", "t", "o", "l", "e",
      "r", "a", "n", "t", " ", "s", "o", "c", "i", "e", "t", "y", ".", " ", "I", "n",
      " ", "e", "s", "s", "e", "n", "c", "e", ",", " ", "t", "h", "e", " ", "m", "e",
      "s", "s", "a", "g", "e", " ", "i", "s", " ", "t", "h", "a", "t", " ", "l", "e",
      "g", "i", "t", "i", "m", "a", "t", "e", " ", "r", "u", "l", "e", " ", "c", "o",
      "m", "e", "s", " ", "w", "i", "t", "h", " ", "t", "h", "e", " ", "r", "e", "s",
      "p", "o", "n", "s", "i", "b", "i", "l", "i", "t", "y", " ", "t", "o", " ", "e",
      "n", "s", "u", "r", "e", " ", "t", "h", "e", " ", "w", "e", "l", "f", "a", "r",
      "e", " ", "a", "n", "d", " ", "d", "i", "g", "n", "i", "t", "y", " ", "o", "f",
      " ", "a", "l", "l", " ", "p", "e", "o", "p", "l", "e", "." >>)

PayloadTooSmall == Str(<<
      "T", "o", "t", "a", "l", " ", "p", "a", "y", "l", "o", "a", "d", " ", "s", "i",
      "z", "e", " ", "m", "u", "s", "t", " ", "b", "e", " ", "a", "t", " ", "l", "e",
      "a", "s", "t", " ", "3", " ", "b", "y", "t", "e", "s", "." >>)

\* set_smart_manufacturer_payload(total_payload_bytes)
set_smart_manufacturer_payload(k, total_payload_bytes) ==
    IF total_payload_bytes < 3
    THEN {[k |-> k, res |-> <<FALSE, 61166, PayloadTooSmall>>]}
    ELSE LET additional_data_length == total_payload_bytes - 3
             additional_data ==
                 IF Len(base_message) < additional_data_length
                 THEN base_message \o [i \in 1..(additional_data_length - Len(base_message)) |-> 32]
                 ELSE Take(base_message, additional_data_length)
             data_bytes == Utf8Encode(additional_data)
             payload == FormatHex(Len(data_bytes) + 3, 2) \o Str(<<"F", "F">>)
                        \o company_id \o BytesToHex(data_bytes)
         IN  send_custom_command_text(k,
                 Str(<<"S", "E", "A", "D", ",", "T", "=", "0", "1", ",", "D", "=">>) \o payload)

\* None
None == <<-1>>

\* str.strip() (ASCII white space)
IsSpace(c) == c \in {9, 10, 11, 12, 13, 28, 29, 30, 31, 32}

Strip(s) ==
    LET keep == {i \in 1..Len(s) : ~IsSpace(s[i])}
    IN  IF keep = {} THEN << >>
        ELSE SubSeq(s, MinOf(keep), CHOOSE i \in keep : \A j \in keep : j <= i)

\* str.split(','): the parts between the commas, in order.
SplitCommas(s) ==
    LET isComma(i) == s[i] = 44
        commas == SelectSeq([i \in 1..Len(s) |-> i], isComma)
        from(i) == IF i = 1 THEN 1 ELSE commas[i - 1] + 1
        to(i)   == IF i = Len(commas) + 1 THEN Len(s) ELSE commas[i] - 1
    IN  [i \in 1..(Len(commas) + 1) |-> SubSeq(s, from(i), to(i))]

\* Position of the first occurrence of needle in s (str.find, 1-based; 0: absent)
Find(s, needle) ==
    LET hits == {p \in 1..(Len(s) - Len(needle) + 1) :
                    SubSeq(s, p, p + Len(needle) - 1) = needle}
    IN  IF hits = {} THEN 0 ELSE MinOf(hits)

\* The (key, value) list get_gacp_details builds from a response.
GacpFields(text) ==
    LET start     == Find(text, Str(<<"G", "A", "C", "P", ",">>))
        param_str == IF start # 0 THEN Drop(text, start - 1 + 5) ELSE text
        stripped  == LET parts == SplitCommas(param_str)
                     IN  [i \in 1..Len(parts) |-> Strip(parts[i])]
        nonEmpty(part) == part # << >>
        kept      == SelectSeq(stripped, nonEmpty)
        pair(part) ==
            LET eq == {i \in 1..Len(part) : part[i] = 61}
            IN  IF eq # {}
                THEN <<Strip(SubSeq(part, 1, MinOf(eq) - 1)),
                       Strip(SubSeq(part, MinOf(eq) + 1, Len(part)))>>
                ELSE <<part, None>>
    IN  [i \in 1..Len(kept) |-> pair(kept[i])]

\* get_gacp_details(): <<success, error_code, fields, raw_response>>
get_gacp_details(k) ==
    { IF ~r.res[1] THEN [k |-> r.k, res |-> <<r.res[1], r.res[2], None, r.res[3]>>]
      ELSE [k |-> r.k, res |-> <<TRUE, 0, GacpFields(r.res[3]), r.res[3]>>] :
      r \in send_custom_command_text(k, Str(<<"G", "A", "C", "P">>)) }

\* An init_device that goes on to the device name after a failed erase.
init_device_past_erase(k, device_name) ==
    LET opened == [k EXCEPT !.open = TRUE]
    IN  UNION { IF ~a.res[1] THEN {[k |-> a.k, res |-> FALSE]} ELSE
        UNION { IF ~b.res[1] THEN {[k |-> b.k, res |-> FALSE]} ELSE
        UNION { { [k |-> d.k, res |-> d.res[1]] :
                    d \in set_device_name_extended(c.k, device_name) } :
                c \in send_custom_command_text(b.k,
                        Str(<<"S", "E", "A", "D", ",", "T", "=", "0", "0", ",", "D", "=">>)) } :
                b \in extended_adv_config(a.k, Str(<<"0", "0", "A", "0">>)) } :
                a \in reboot_device(opened) }

\* init_device(serial_port_par, device_name): opens the port, then reboot,
\* extended_adv_config(), SEAD erase, device name; it returns at the first
\* step that fails.  res is the success flag of the returned pair.
init_device(k, device_name) ==
    LET opened == [k EXCEPT !.open = TRUE]
    IN  UNION { IF ~a.res[1] THEN {[k |-> a.k, res |-> FALSE]} ELSE
        UNION { IF ~b.res[1] THEN {[k |-> b.k, res |-> FALSE]} ELSE
        UNION { IF ~c.res[1] THEN {[k |-> c.k, res |-> FALSE]} ELSE
                { [k |-> d.k, res |-> d.res[1]] :
                    d \in set_device_name_extended(c.k, device_name) } :
                c \in send_custom_command_text(b.k,
                        Str(<<"S", "E", "A", "D", ",", "T", "=", "0", "0", ",", "D", "=">>)) } :
                b \in extended_adv_config(a.k, Str(<<"0", "0", "A", "0">>)) } :
                a \in reboot_device(opened) }

\* close_device(ev_kit)
close_device(k) == [k EXCEPT !.open = FALSE]

-----------------------------------------------------------------------------
(* Each specification below drives one part of the repository; the *)
(* variables of the other parts rest at these values.              *)

Link0 == [rx |-> << >>, adv |-> << >>, acp |-> FactoryAcp, io |-> << >>,
          faults |-> 0, errors |-> 0, refused |-> << >>, open |-> FALSE]

CodecIdle  == /\ cpc = "idle" /\ F = << >> /\ raw_payload = << >> /\ fields = << >>
              /\ printed_fields = << >> /\ extracted = << >>
ParserIdle == ppc = "idle" /\ response = << >> /\ parsed = <<TRUE, 0>>
LinkIdle   == ev_kit = Link0 /\ op = <<"none">> /\ result = None
FinalIdle  == /\ fpc = "idle" /\ current_text_offset = 0 /\ local_custom_payload = << >>
              /\ round_count = 0 /\ current_custom_data_size = 0
              /\ filler = << >>
              /\ append_details = << << >>, << >> >> /\ passes = 0
              /\ append_n = 0 /\ second_writer = << >>
ThreadIdle == /\ tpc = [t \in {"main", "display", "keyboard"} |-> "idle"] /\ display_lock = "none"
              /\ adv_interval_ms = 0 /\ display_mode = "payload" /\ in_flight = {}

-----------------------------------------------------------------------------
(* The AD codec: fields are encoded by set_custom_adv_payload, the module *)
(* appends each SEAD payload to the one it holds, and the parsing loop of *)
(* get_adv_payload_details decodes the result.                            *)

MaxFields  == 2    \* fields of one payload
MaxDataLen == 2    \* characters of a short field value

\* Characters of field values: NUL (byte 00) and U+2014 (bytes E2 80 94).
CodecChars == {0, 8212}
\* Lengths of the long values, all of the letter A: with the type byte (and
\* the company id) they give lengths up to 255 and, for 253 with type FF, 256.
LongLens == {15, 252, 253}
CodecTypes == {SHORTENED_LOCAL_NAME, MANUFACTURER_SPECIFIC_DATA}

CodecData ==
    UNION {[1..n -> CodecChars] : n \in 0..MaxDataLen}
    \cup {[i \in 1..n |-> 65] : n \in LongLens}

CodecFields == {<<t, d>> : t \in CodecTypes, d \in CodecData}

\* The value bytes of the AD field set_custom_adv_payload builds.
FieldValue(f) ==
    (IF f[1] = MANUFACTURER_SPECIFIC_DATA THEN <<9, 0>> ELSE << >>) \o Utf8Encode(f[2])

CodecInit ==
    /\ cpc = "build" /\ F = << >> /\ raw_payload = << >> /\ fields = << >>
    /\ printed_fields = << >> /\ extracted = << >>
    /\ ParserIdle /\ LinkIdle /\ FinalIdle /\ ThreadIdle

\* One more field for the encoder.
AddField ==
    /\ cpc = "build" /\ Len(F) < MaxFields
    /\ \E f \in CodecFields : F' = Append(F, f)
    /\ UNCHANGED <<cpc, raw_payload, fields, printed_fields, extracted, parserVars, linkVars, finalVars, threadVars>>

\* The payload the module holds after one SEAD,T=01 per field.
Encode ==
    /\ cpc = "build"
    /\ raw_payload' = Concat([i \in 1..Len(F) |-> custom_adv_payload(F[i][2], F[i][1])])
    /\ cpc' = "encoded"
    /\ UNCHANGED <<F, fields, printed_fields, extracted, parserVars, linkVars, finalVars, threadVars>>

Decode ==
    /\ cpc = "encoded"
    /\ fields' = ParseFields(raw_payload)
    /\ cpc' = "decoded"
    /\ UNCHANGED <<F, raw_payload, printed_fields, extracted, parserVars, linkVars, finalVars, threadVars>>

CodecNext == AddField \/ Encode \/ Decode

SpecCodec == CodecInit /\ [][CodecNext]_vars

\* Lengths are well formed: value bytes + 1 fits the u8 length of an AdField.
WellFormed(fs) == \A i \in 1..Len(fs) : Len(FieldValue(fs[i])) + 1 <= 255

\* C1: for every field sequence with well-formed lengths, decoding the
\* encoding gives the same number of fields, in order, each with the length
\* (value bytes + 1), the type and the value bytes of the field encoded.
C1_RoundTrip ==
    (cpc = "decoded" /\ WellFormed(F)) =>
        /\ Len(fields) = Len(F)
        /\ \A i \in 1..Len(F) :
              /\ fields[i][1] = Len(FieldValue(F[i])) + 1
              /\ fields[i][2] = F[i][1]
              /\ ~FromHexRaises(fields[i][3])
              /\ FromHex(fields[i][3]) = FieldValue(F[i])

C1_Witness ==
    /\ cpc = "decoded" /\ Len(F) = 2 /\ WellFormed(F)
    /\ F[1][1] = MANUFACTURER_SPECIFIC_DATA /\ Len(F[1][2]) = 252
    /\ F[2][2] = <<0, 8212>>
    /\ Len(fields) = 2

-----------------------------------------------------------------------------
(* The response parser: extract_error_code applied to response texts made *)
(* of the pieces a read can deliver.                                      *)

MaxChunks == 2    \* pieces of one response text

ReplyOk == Str(<<
      "@", "R", ",", "0", "0", "0", "1", ",", "C", "M", "D", "X", ",", "0", "0", "0",
      "0" >>)
ReplyError == Str(<<
      "@", "R", ",", "0", "0", "0", "1", ",", "C", "M", "D", "X", ",", "0", "2", "0",
      "C" >>)
ReplyUnknown == Str(<<
      "@", "R", ",", "0", "0", "0", "1", ",", "C", "M", "D", "X", ",", "E", "E", "E",
      "E" >>)
ReplyLower == Str(<<"@", "R", ",", "1", "a", ",", "/", "p", ",", "0", "0", "f", "f">>)
ReplyNoStatus == Str(<<"@", "R", ",", "0", "0", "0", "1", ",", "/", "P", "I", "N", "G">>)
ReplyCutStatus == Str(<<
      "@", "R", ",", "0", "0", "0", "1", ",", "C", "M", "D", "X", ",", "0", "2" >>)
EventText == Str(<<
      "@", "E", ",", "0", "0", "0", "5", ",", "B", "O", "O", "T", ",", "E", "=", "0",
      "1", "0", "1" >>)
FreeText == Str(<<"E", "Z", "-", "S", "e", "r", "i", "a", "l", " ", "V", "1", ".", "3">>)
PayloadText == Str(<<",", "D", "=", "0", "2", "0", "1">>)

Chunks == {ReplyOk, ReplyError, ReplyUnknown, ReplyLower, ReplyNoStatus, ReplyCutStatus,
           EventText, FreeText, PayloadText, CRLF}

ParserInputs ==
    {Concat(cs) : cs \in UNION {[1..n -> Chunks] : n \in 0..MaxChunks}}

ParserInit ==
    /\ ppc = "text" /\ response \in ParserInputs /\ parsed = <<TRUE, 0>>
    /\ CodecIdle /\ LinkIdle /\ FinalIdle /\ ThreadIdle

Parse ==
    /\ ppc = "text"
    /\ parsed' = extract_error_code(response)
    /\ ppc' = "parsed"
    /\ UNCHANGED <<response, codecVars, linkVars, finalVars, threadVars>>

ParserNext == Parse

SpecParser == ParserInit /\ [][ParserNext]_vars

\* text[p..b+4] is a reply  @R,<hex digits>,<characters other than ','>,<4 hex
\* digits>  whose first comma-separated part ends at a and second at b.
IsReply(text, p, a, b) ==
    /\ p + 2 <= Len(text) /\ text[p] = 64 /\ text[p + 1] = 82 /\ text[p + 2] = 44
    /\ p + 3 < a /\ a <= Len(text) /\ text[a] = 44
    /\ \A i \in (p + 3)..(a - 1) : IsHexDigit(text[i])
    /\ a + 1 < b /\ b + 4 <= Len(text) /\ text[b] = 44
    /\ \A i \in (a + 1)..(b - 1) : text[i] # 44
    /\ \A i \in (b + 1)..(b + 4) : IsHexDigit(text[i])

\* <<p, code>> for every reply in the text: where it starts, and the value of
\* its 4 hex digits.
Replies(text) ==
    UNION { UNION { { <<p, ParseHex(SubSeq(text, b + 1, b + 4))>> :
                        b \in {x \in (a + 2)..Len(text) : IsReply(text, p, a, x)} } :
                    a \in {y \in (p + 4)..Len(text) : text[y] = 44} } :
            p \in {z \in 1..Len(text) : text[z] = 64} }

\* C4 as stated: whatever reply the text contains, the parser returns the value
\* of its 4 hex digits, with success exactly when that value is 0.
C4_AnyReplyCode ==
    ppc = "parsed" =>
        \A r \in Replies(response) : parsed = <<r[2] = 0, r[2]>>

\* C4: for a text containing a reply, the parser returns the value of the 4
\* hex digits of the leftmost reply, with success exactly when it is 0.
C4_LeftmostReplyCode ==
    (ppc = "parsed" /\ Replies(response) # {}) =>
        \E r \in Replies(response) :
            /\ \A q \in Replies(response) : r[1] <= q[1]
            /\ parsed = <<r[2] = 0, r[2]>>

C4_Witness ==
    /\ ppc = "parsed" /\ response = ReplyError \o ReplyOk
    /\ Cardinality(Replies(response)) = 2
    /\ parsed = <<FALSE, 524>>

\* C5: for a text containing no reply (an event, free text, a reply cut
\* before its status is complete, nothing at all), the parser returns
\* (true, 0x0000).
C5_NoReplyIsSuccess ==
    (ppc = "parsed" /\ Replies(response) = {}) => parsed = <<TRUE, 0>>

C5_Witness ==
    /\ ppc = "parsed" /\ response = EventText \o ReplyCutStatus
    /\ Replies(response) = {}
    /\ parsed = <<TRUE, 0>>

-----------------------------------------------------------------------------
(* A caller of evkit_lib: one call of one library function on a link in  *)
(* one of the states earlier calls can leave it in.                      *)

\* What may still be pending when a call starts: nothing, the end of a
\* reply, or a whole reply whose read returned before it arrived.
StaleTexts == {<< >>, CRLF,
               Str(<<
      "@", "R", ",", "0", "0", "0", "1", ",", "/", "C", "A", ",", "0", "0", "0", "0" >>) \o CRLF,
               Str(<<
      "@", "R", ",", "0", "0", "0", "1", ",", "S", "E", "A", "D", ",", "0", "2", "0",
      "C" >>) \o CRLF}

\* Advertising payloads the module may hold: none, or a device name and a
\* manufacturer field.
HeldPayloads == {<< >>,
                 Str(<<
      "1", "3", "0", "8", "7", "3", "6", "3", "6", "F", "7", "5", "7", "4", "5", "F",
      "7", "4", "6", "5", "6", "3", "6", "8", "6", "E", "6", "F", "6", "C", "6", "F",
      "6", "7", "6", "9", "6", "5", "7", "3", "0", "8", "F", "F", "0", "9", "0", "0",
      "4", "4", "6", "9", "7", "6", "6", "9", "6", "E" >>)}

InitialLinks ==
    {[Link0 EXCEPT !.adv = a] : a \in HeldPayloads}
    \cup {[rx |-> s, adv |-> a, acp |-> FactoryAcp, io |-> << >>, faults |-> 0, errors |-> 0,
           refused |-> << >>,
           open |-> TRUE] : s \in StaleTexts, a \in HeldPayloads}

Commands == {Str(<<"G", "E", "A", "D">>),
             Str(<<"/", "P", "I", "N", "G">>),
             Str(<<
      "S", "E", "A", "D", ",", "T", "=", "0", "0", ",", "D", "=", "0", "2", "0", "1" >>)}
DeviceNames == {Str(<<
      "s", "c", "o", "u", "t", "_", "t", "e", "c", "h", "n", "o", "l", "o", "g", "i",
      "e", "s" >>)}
Intervals == {19, 20, 21, 22, 100, 10240, 10241}
PayloadSizes == {2, 3, 27, 86, 87}
PayloadData == {Str(<<"D", "i", "v", "i", "n">>), <<65, 8212>>, Str(<<"A", "B">>)}

LinkInit ==
    /\ ev_kit \in InitialLinks /\ op = <<"none">> /\ result = None
    /\ CodecIdle /\ ParserIdle /\ FinalIdle /\ ThreadIdle

\* No call has been made yet and the port is open.
CanCall == op = <<"none">> /\ ev_kit.open

\* The call named by what returns outcome r of the function called: the link
\* is as the call leaves it, the result is what it returned.
Return(what, r) ==
    /\ ev_kit' = r.k /\ result' = r.res /\ op' = what
    /\ UNCHANGED <<codecVars, parserVars, finalVars, threadVars>>

SendCustomCommandText ==
    /\ CanCall
    /\ \E c \in Commands : \E r \in send_custom_command_text(ev_kit, c) :
          Return(<<"send_custom_command_text", c>>, r)
GetFirmwareVersion ==
    /\ CanCall
    /\ \E r \in fixed_command(ev_kit, Str(<<"/", "Q", "F", "V">>)) :
          Return(<<"get_firmware_version">>, r)
GetPing ==
    /\ CanCall
    /\ \E r \in fixed_command(ev_kit, Str(<<"/", "P", "I", "N", "G">>)) :
          Return(<<"get_ping">>, r)
RebootDevice ==
    /\ CanCall
    /\ \E r \in reboot_device(ev_kit) :
          Return(<<"reboot_device">>, r)
ResetFactory ==
    /\ CanCall
    /\ \E r \in fixed_command(ev_kit, Str(<<"/", "R", "F", "A", "C">>)) :
          Return(<<"reset_factory">>, r)
StartLegacyAdvertising ==
    /\ CanCall
    /\ \E r \in fixed_command(ev_kit, Str(<<"/", "A">>)) :
          Return(<<"start_legacy_advertising">>, r)
ClearAndStartLegacyAdvertising ==
    /\ CanCall
    /\ \E r \in fixed_command(ev_kit, Str(<<"/", "C", "A">>)) :
          Return(<<"clear_and_start_legacy_advertising">>, r)
StopLegacyAdvertising ==
    /\ CanCall
    /\ \E r \in fixed_command(ev_kit, Str(<<"/", "A", "X">>)) :
          Return(<<"stop_legacy_advertising">>, r)
StopExtendedAdvertising ==
    /\ CanCall
    /\ \E r \in fixed_command(ev_kit, Str(<<"/", "C", "A", "X">>)) :
          Return(<<"stop_extended_advertising">>, r)
SetDeviceNameExtended ==
    /\ CanCall
    /\ \E n \in DeviceNames : \E r \in set_device_name_extended(ev_kit, n) :
          Return(<<"set_device_name_extended", n>>, r)
ExtendedAdvConfig ==
    /\ CanCall
    /\ \E r \in extended_adv_config(ev_kit, Str(<<"0", "0", "A", "0">>)) :
          Return(<<"extended_adv_config">>, r)
SetCustomAdvPayload ==
    /\ CanCall
    /\ \E d \in PayloadData, t \in CodecTypes, a \in BOOLEAN :
       \E r \in set_custom_adv_payload(ev_kit, d, t, a) :
          Return(<<"set_custom_adv_payload", d, t, a>>, r)
GetGead ==
    /\ CanCall
    /\ \E r \in send_custom_command_text(ev_kit, Str(<<"G", "E", "A", "D">>)) :
          Return(<<"get_gead">>, r)
GetGacp ==
    /\ CanCall
    /\ \E r \in send_custom_command_text(ev_kit, Str(<<"G", "A", "C", "P">>)) :
          Return(<<"get_gacp">>, r)
SetAdvInterval ==
    /\ CanCall
    /\ \E ms \in Intervals : \E r \in set_adv_interval(ev_kit, ms) :
          Return(<<"set_adv_interval", ms>>, r)
GetGacpDetails ==
    /\ CanCall
    /\ \E r \in get_gacp_details(ev_kit) :
          Return(<<"get_gacp_details">>, r)
GetAdvPayloadDetails ==
    /\ CanCall
    /\ \E r \in get_adv_payload_details(ev_kit) :
          Return(<<"get_adv_payload_details">>, r)
SetSmartManufacturerPayload ==
    /\ CanCall
    /\ \E n \in PayloadSizes : \E r \in set_smart_manufacturer_payload(ev_kit, n) :
          Return(<<"set_smart_manufacturer_payload", n>>, r)

\* init_device opens the port itself; close_device closes it.
InitDevice ==
    /\ op = <<"none">> /\ ~ev_kit.open
    /\ \E n \in DeviceNames : \E r \in init_device(ev_kit, n) :
          Return(<<"init_device", n>>, r)
CloseDevice ==
    /\ CanCall
    /\ Return(<<"close_device">>, [k |-> close_device(ev_kit), res |-> None])

Next ==
    \/ SendCustomCommandText \/ GetFirmwareVersion \/ GetPing \/ RebootDevice
    \/ ResetFactory \/ StartLegacyAdvertising \/ ClearAndStartLegacyAdvertising
    \/ StopLegacyAdvertising \/ StopExtendedAdvertising \/ SetDeviceNameExtended
    \/ ExtendedAdvConfig \/ SetCustomAdvPayload \/ GetGead \/ GetGacp
    \/ SetAdvInterval \/ GetGacpDetails \/ GetAdvPayloadDetails
    \/ SetSmartManufacturerPayload \/ InitDevice \/ CloseDevice

Spec == LinkInit /\ [][Next]_vars

\* The functions that return a CommandResult <<success, error_code, ...>>.
CommandResultCalls ==
    {"send_custom_command_text", "get_firmware_version", "get_ping", "reboot_device",
     "reset_factory", "start_legacy_advertising", "clear_and_start_legacy_advertising",
     "stop_legacy_advertising", "stop_extended_advertising", "set_device_name_extended",
     "extended_adv_config", "set_custom_adv_payload", "get_gead", "get_gacp",
     "set_adv_interval", "get_gacp_details", "set_smart_manufacturer_payload"}

\* C3: a call of send_custom_command_text(command) does exactly one write, of
\* the command followed by CR LF, and then exactly one read of at most
\* read_buffer_size bytes, whatever the read returns; nothing is retried or
\* read again.
C3_OneWriteOneRead ==
    op[1] = "send_custom_command_text" =>
        ev_kit.io = << <<"write", op[2] \o <<13, 10>>>>, <<"read", 512>> >>

C3_Witness ==
    /\ op[1] = "send_custom_command_text" /\ result[3] = << >>
    /\ ev_kit.rx # << >> /\ Len(ev_kit.io) = 2

\* C6: when the read of a send returns no bytes, the result is not a success.
C6_NoResponseIsNotSuccess ==
    (op[1] = "send_custom_command_text" /\ result[3] = << >>) => ~result[1]

\* C7: every CommandResult the library returns has success exactly when its
\* error_code is 0, and an error_code of 16 bits.
C7_SuccessIffCodeZero ==
    op[1] \in CommandResultCalls =>
        /\ result[1] = (result[2] = 0)
        /\ result[2] \in 0..65535

C7_Witness ==
    /\ op = <<"set_adv_interval", 10241>>
    /\ result[1] = FALSE /\ result[2] = 61166
    /\ ev_kit.io = << >>

-----------------------------------------------------------------------------
(* real_time_control_status.py once its threads run: the main loop, which *)
(* refreshes the display cache under display_lock, the display thread,    *)
(* which reads the cache under display_lock, and the keyboard thread.  A  *)
(* thread may be preempted between the write and the read of an exchange. *)
(* The module answers every command with success and in time.             *)

Threads == {"main", "display", "keyboard"}

adv_interval_jump_amount == 500

\* The link when the threads start: main() has initialised the module, set
\* a payload and the starting interval of 20 ms.
ThreadLink ==
    [rx |-> << >>,
     adv |-> CHOOSE a \in HeldPayloads : a # << >>,
     acp |-> Drop(SacpCommand(FormatHex(IntervalUnits(20), 4)), 5),
     io |-> << >>, faults |-> 0, errors |-> 0, refused |-> << >>, open |-> TRUE]

ThreadInit ==
    /\ tpc = [t \in Threads |-> "idle"] /\ display_lock = "none"
    /\ adv_interval_ms = 20 /\ display_mode = "payload" /\ in_flight = {}
    /\ ev_kit = ThreadLink /\ op = <<"none">> /\ result = None
    /\ CodecIdle /\ ParserIdle /\ FinalIdle

\* One exchange of thread t in two steps: the write, and later the read.
ThreadWrite(t, command, next) ==
    /\ ev_kit' = Write([ev_kit EXCEPT !.io = << >>], command \o CRLF, 0)
    /\ in_flight' = in_flight \cup {t}
    /\ tpc' = [tpc EXCEPT ![t] = next]

ThreadRead(t, next) ==
    /\ \E r \in {Read([ev_kit EXCEPT !.io = << >>], read_buffer_size, 0)} :
          /\ ev_kit' = r.k
          /\ result' = extract_error_code(r.data) \o <<r.data>>
    /\ op' = <<t>>
    /\ in_flight' = in_flight \ {t}
    /\ tpc' = [tpc EXCEPT ![t] = next]

\* main loop, lines 510-515: with display_lock, get_display_text().
MainAcquire ==
    /\ tpc["main"] = "idle" /\ display_lock = "none"
    /\ display_lock' = "main"
    /\ tpc' = [tpc EXCEPT !["main"] = "write"]
    /\ UNCHANGED <<adv_interval_ms, display_mode, in_flight, linkVars,
                   codecVars, parserVars, finalVars>>

\* get_display_text sends GEAD (get_adv_payload_details) in payload mode
\* and GACP (get_gacp_details) in gacp mode.
MainWrite ==
    /\ tpc["main"] = "write"
    /\ ThreadWrite("main",
                   IF display_mode = "payload" THEN Str(<<"G", "E", "A", "D">>)
                                               ELSE Str(<<"G", "A", "C", "P">>),
                   "read")
    /\ UNCHANGED <<display_lock, adv_interval_ms, display_mode, op, result,
                   codecVars, parserVars, finalVars>>

MainRead ==
    /\ tpc["main"] = "read"
    /\ ThreadRead("main", "idle")
    /\ display_lock' = "none"
    /\ UNCHANGED <<adv_interval_ms, display_mode, codecVars, parserVars, finalVars>>

\* display_update_thread, lines 368-369: with display_lock, copy the cache.
DisplayAcquire ==
    /\ tpc["display"] = "idle" /\ display_lock = "none"
    /\ display_lock' = "display"
    /\ tpc' = [tpc EXCEPT !["display"] = "copy"]
    /\ UNCHANGED <<adv_interval_ms, display_mode, in_flight, linkVars,
                   codecVars, parserVars, finalVars>>

DisplayRelease ==
    /\ tpc["display"] = "copy"
    /\ display_lock' = "none"
    /\ tpc' = [tpc EXCEPT !["display"] = "idle"]
    /\ UNCHANGED <<adv_interval_ms, display_mode, in_flight, linkVars,
                   codecVars, parserVars, finalVars>>

\* keyboard_input_thread: keys p and g select the display mode.
KeyMode ==
    /\ tpc["keyboard"] = "idle"
    /\ \E m \in {"payload", "gacp"} : display_mode' = m
    /\ UNCHANGED <<tpc, display_lock, adv_interval_ms, in_flight, linkVars,
                   codecVars, parserVars, finalVars>>

\* Keys s and f change adv_interval_ms and call set_adv_interval, which
\* takes no lock; its range check passes or the call returns at once.
KeyInterval ==
    /\ tpc["keyboard"] = "idle"
    /\ \E ms \in { IF adv_interval_ms + adv_interval_jump_amount > 10240 THEN 10240
                   ELSE adv_interval_ms + adv_interval_jump_amount,
                   IF adv_interval_ms - adv_interval_jump_amount < 20 THEN 20
                   ELSE adv_interval_ms - adv_interval_jump_amount } :
          /\ adv_interval_ms' = ms
          /\ tpc' = [tpc EXCEPT !["keyboard"] =
                        IF ms < 20 \/ ms > 10240 THEN "idle" ELSE "cax_write"]
    /\ UNCHANGED <<display_lock, display_mode, in_flight, linkVars,
                   codecVars, parserVars, finalVars>>

\* The three exchanges of extended_adv_config: /CAX, SACP, /CA.
KeyboardWrite ==
    /\ \/ /\ tpc["keyboard"] = "cax_write"
          /\ ThreadWrite("keyboard", Str(<<"/", "C", "A", "X">>), "cax_read")
       \/ /\ tpc["keyboard"] = "sacp_write"
          /\ ThreadWrite("keyboard",
                         SacpCommand(FormatHex(IntervalUnits(adv_interval_ms), 4)),
                         "sacp_read")
       \/ /\ tpc["keyboard"] = "ca_write"
          /\ ThreadWrite("keyboard", Str(<<"/", "C", "A">>), "ca_read")
    /\ UNCHANGED <<display_lock, adv_interval_ms, display_mode, op, result,
                   codecVars, parserVars, finalVars>>

KeyboardRead ==
    /\ \/ tpc["keyboard"] = "cax_read" /\ ThreadRead("keyboard", "sacp_write")
       \/ tpc["keyboard"] = "sacp_read" /\ ThreadRead("keyboard", "ca_write")
       \/ tpc["keyboard"] = "ca_read" /\ ThreadRead("keyboard", "idle")
    /\ UNCHANGED <<display_lock, adv_interval_ms, display_mode,
                   codecVars, parserVars, finalVars>>

ThreadNext ==
    \/ MainAcquire \/ MainWrite \/ MainRead
    \/ DisplayAcquire \/ DisplayRelease
    \/ KeyMode \/ KeyInterval \/ KeyboardWrite \/ KeyboardRead

SpecThreads == ThreadInit /\ [][ThreadNext]_vars

\* C2: where more than one thread issues commands, exchanges on the link are
\* serialized: no thread writes a command while another thread's exchange
\* (its write followed by its read) is in progress, so at most one command
\* is in flight at any time.
C2_OneExchangeInFlight == Cardinality(in_flight) <= 1
-----------------------------------------------------------------------------
(* ble_final_experiment.py: the payload growth experiment *)

DEFAULT_MESSAGE == base_message
DEVICE_NAME == CHOOSE n \in DeviceNames : TRUE    \* "scout_technologies"
INITIAL_PAYLOAD_CUSTOM == Take(DEFAULT_MESSAGE, 5)
INITIAL_OFFSET == Len(INITIAL_PAYLOAD_CUSTOM)
APPEND_INCREMENT == 24
MAX_ROUNDS == 7
ADV_INTERVAL_MS == 20
PAYLOAD_LIMIT == 240

MaxPasses == 2    \* passes of the loop from one payload update to the next

\* DEFAULT_MESSAGE.encode("utf-8")
DefaultMessageBytes == Utf8Encode(DEFAULT_MESSAGE)

\* "SEAD,T=01,D=" with the manufacturer field [length][FF][0900][data] that
\* send_initial_payload and append_payload build for the bytes data.
SeadManufacturer(data) ==
    Str(<<"S", "E", "A", "D", ",", "T", "=", "0", "1", ",", "D", "=">>)
    \o FormatHex(Len(data) + 3, 2) \o Str(<<"F", "F">>) \o company_id
    \o BytesToHex(data)

\* send_initial_payload(custom_data_str)
send_initial_payload(k, custom_data_str) ==
    send_custom_command_text(k, SeadManufacturer(Utf8Encode(custom_data_str)))

DecodeError == Str(<<"<", "d", "e", "c", "o", "d", "e", " ", "e", "r", "r", "o", "r", ">">>)

\* parse_payload_unicode(payload_details): the text of the first field of
\* type FF whose data starts with "0900", "" when there is none.
parse_payload_unicode(details) ==
    LET hits == {i \in 1..Len(details[2]) :
                    /\ details[2][i][2] = 255
                    /\ StartsWith(details[2][i][3], company_id)}
    IN  IF hits = {} THEN << >>
        ELSE LET custom_hex == Drop(details[2][MinOf(hits)][3], 4)
             IN  IF FromHexRaises(custom_hex) THEN DecodeError
                 ELSE Utf8Decode(FromHex(custom_hex))

\* A filler that is not padded when the message has run out.
Filler_unpadded(offset, append_size) ==
    Slice(DefaultMessageBytes, offset, offset + append_size)

\* The filler append_payload takes at offset, padded with spaces.
Filler(offset, append_size) ==
    LET part == Slice(DefaultMessageBytes, offset, offset + append_size)
    IN  part \o [i \in 1..(append_size - Len(part)) |-> 32]

\* append_payload(append_size) called with current_text_offset = offset:
\* the read of the device's payload (details), then the SEAD command with
\* the device's custom data followed by the filler.  The offset is advanced
\* before the read, whatever the read and the command return.
append_payload(k, offset, append_size) ==
    UNION { { [k |-> w.k, res |-> w.res, details |-> d.res,
               filler |-> Filler(offset, append_size),
               offset |-> offset + append_size] :
                w \in send_custom_command_text(d.k,
                        SeadManufacturer(Utf8Encode(parse_payload_unicode(d.res))
                                         \o Filler(offset, append_size))) } :
            d \in get_adv_payload_details(k) }

\* Lines 285-288 of main(): the text main() adds to local_custom_payload.
AppendedText(local) ==
    Utf8Decode(Slice(DefaultMessageBytes, Len(local), Len(local) + APPEND_INCREMENT))

FinalInit ==
    /\ fpc = "init_device"
    /\ current_text_offset = INITIAL_OFFSET
    /\ local_custom_payload = INITIAL_PAYLOAD_CUSTOM
    /\ round_count = 0 /\ current_custom_data_size = 0 /\ passes = 0
    /\ filler = << >>
    /\ append_details = << << >>, << >> >>
    /\ append_n = APPEND_INCREMENT /\ second_writer = << >>
    /\ ev_kit = Link0 /\ op = <<"none">> /\ result = None
    /\ CodecIdle /\ ParserIdle /\ ThreadIdle

\* Lines 205-208: init_device, sys.exit(1) when it fails.
MainInitDevice ==
    /\ fpc = "init_device"
    /\ \E r \in init_device(ev_kit, DEVICE_NAME) :
          /\ ev_kit' = r.k /\ result' = r.res
          /\ fpc' = IF r.res THEN "set_adv_interval" ELSE "exit"
    /\ UNCHANGED <<op, current_text_offset, local_custom_payload, round_count,
                   current_custom_data_size, filler, append_details, passes,
                   append_n, second_writer,
                   codecVars, parserVars, threadVars>>

\* Lines 210-214: set_adv_interval; close_device and exit when it fails.
MainSetAdvInterval ==
    /\ fpc = "set_adv_interval"
    /\ \E r \in set_adv_interval([ev_kit EXCEPT !.io = << >>], ADV_INTERVAL_MS) :
          /\ result' = r.res
          /\ ev_kit' = IF r.res[1] THEN r.k ELSE close_device(r.k)
          /\ fpc' = IF r.res[1] THEN "send_initial_payload" ELSE "exit"
    /\ UNCHANGED <<op, current_text_offset, local_custom_payload, round_count,
                   current_custom_data_size, filler, append_details, passes,
                   append_n, second_writer,
                   codecVars, parserVars, threadVars>>

\* Lines 219-223: send_initial_payload; close_device and exit when it fails.
MainSendInitialPayload ==
    /\ fpc = "send_initial_payload"
    /\ \E r \in send_initial_payload([ev_kit EXCEPT !.io = << >>],
                                     INITIAL_PAYLOAD_CUSTOM) :
          /\ result' = r.res
          /\ ev_kit' = IF r.res[1] THEN r.k ELSE close_device(r.k)
          /\ fpc' = IF r.res[1] THEN "initial_read" ELSE "exit"
    /\ UNCHANGED <<op, current_text_offset, local_custom_payload, round_count,
                   current_custom_data_size, filler, append_details, passes,
                   append_n, second_writer,
                   codecVars, parserVars, threadVars>>

\* Lines 225-247: the device's payload is read back and its custom data
\* becomes local_custom_payload; round 1 starts.
MainInitialRead ==
    /\ fpc = "initial_read"
    /\ \E r \in get_adv_payload_details([ev_kit EXCEPT !.io = << >>]) :
          /\ ev_kit' = r.k
          /\ local_custom_payload' = parse_payload_unicode(r.res)
    /\ round_count' = 1
    /\ current_custom_data_size' = Len(Utf8Encode(INITIAL_PAYLOAD_CUSTOM))
    /\ fpc' = "loop"
    /\ UNCHANGED <<op, result, current_text_offset, filler, append_details, passes,
                   append_n, second_writer,
                   codecVars, parserVars, threadVars>>

\* Lines 251-277: one pass of the loop reads the payload for the status
\* line; the packet count then has or has not reached the next threshold.
\* At most MaxPasses passes are made before it has.
MainStatus ==
    /\ fpc = "loop"
    /\ \E r \in get_adv_payload_details([ev_kit EXCEPT !.io = << >>]) :
          ev_kit' = r.k
    /\ \/ fpc' = "append" /\ passes' = 0
       \/ passes + 1 < MaxPasses /\ fpc' = "loop" /\ passes' = passes + 1
    /\ UNCHANGED <<op, result, current_text_offset, local_custom_payload, round_count,
                   current_custom_data_size, filler, append_details,
                   append_n, second_writer,
                   codecVars, parserVars, threadVars>>

\* The append block with a loop that goes on after a failed append_payload.
MainAppend_retry ==
    /\ fpc = "append"
    /\ \E a \in append_payload([ev_kit EXCEPT !.io = << >>], current_text_offset,
                               APPEND_INCREMENT) :
          /\ ev_kit' = a.k /\ result' = a.res
          /\ filler' = a.filler /\ append_details' = a.details
          /\ current_text_offset' = a.offset
          /\ IF ~a.res[1]
             THEN /\ fpc' = "loop"
                  /\ UNCHANGED <<local_custom_payload, current_custom_data_size,
                                 round_count>>
             ELSE /\ local_custom_payload' =
                        local_custom_payload \o AppendedText(local_custom_payload)
                  /\ current_custom_data_size' =
                        current_custom_data_size + APPEND_INCREMENT
                  /\ round_count' = round_count + 1
                  /\ fpc' = IF round_count + 1 > MAX_ROUNDS THEN "finally" ELSE "loop"
    /\ UNCHANGED <<op, passes, append_n, second_writer,
                   codecVars, parserVars, threadVars>>

\* Lines 278-298: append_payload; the loop ends when it fails, otherwise
\* the local payload, the size and the round are advanced and the loop ends
\* after round MAX_ROUNDS.
MainAppend ==
    /\ fpc = "append"
    /\ \E a \in append_payload([ev_kit EXCEPT !.io = << >>], current_text_offset,
                               APPEND_INCREMENT) :
          /\ ev_kit' = a.k /\ result' = a.res
          /\ filler' = a.filler /\ append_details' = a.details
          /\ current_text_offset' = a.offset
          /\ IF ~a.res[1]
             THEN /\ fpc' = "finally"
                  /\ UNCHANGED <<local_custom_payload, current_custom_data_size,
                                 round_count>>
             ELSE /\ local_custom_payload' =
                        local_custom_payload \o AppendedText(local_custom_payload)
                  /\ current_custom_data_size' =
                        current_custom_data_size + APPEND_INCREMENT
                  /\ round_count' = round_count + 1
                  /\ fpc' = IF round_count + 1 > MAX_ROUNDS THEN "finally" ELSE "loop"
    /\ UNCHANGED <<op, passes, append_n, second_writer,
                   codecVars, parserVars, threadVars>>

\* KeyboardInterrupt in the loop.
MainInterrupt ==
    /\ fpc \in {"loop", "append"}
    /\ fpc' = "interrupted"
    /\ UNCHANGED <<linkVars, current_text_offset, local_custom_payload, round_count,
                   current_custom_data_size, filler, append_details, passes,
                   append_n, second_writer,
                   codecVars, parserVars, threadVars>>

\* Lines 302-304, the finally clause: reboot_device, close_device.
MainFinally ==
    /\ fpc \in {"finally", "interrupted"}
    /\ \E r \in reboot_device([ev_kit EXCEPT !.io = << >>]) :
          ev_kit' = close_device(r.k)
    /\ fpc' = "done"
    /\ UNCHANGED <<op, result, current_text_offset, local_custom_payload, round_count,
                   current_custom_data_size, filler, append_details, passes,
                   append_n, second_writer,
                   codecVars, parserVars, threadVars>>

\* KeyboardInterrupt before the try statement (lines 210-247): nothing
\* catches it and the program ends.
MainInterruptEarly ==
    /\ fpc \in {"set_adv_interval", "send_initial_payload", "initial_read"}
    /\ fpc' = "uncaught"
    /\ UNCHANGED <<linkVars, current_text_offset, local_custom_payload, round_count,
                   current_custom_data_size, filler, append_details, passes,
                   append_n, second_writer,
                   codecVars, parserVars, threadVars>>

\* A step main() takes by itself, told by the position it starts from and
\* the one it leads to: in SpecFinal these are the steps of MainInitDevice,
\* MainSetAdvInterval, MainSendInitialPayload, MainInitialRead, MainStatus,
\* MainAppend and MainFinally, each of which is possible wherever its
\* position is reached, and no step of an interrupt.
MainStep ==
    /\ fpc \in {"init_device", "set_adv_interval", "send_initial_payload",
                 "initial_read", "loop", "append", "finally", "interrupted"}
    /\ fpc' \in {"set_adv_interval", "send_initial_payload", "initial_read",
                  "loop", "append", "finally", "exit", "done"}
    /\ passes' \in 0..MaxPasses
    /\ <<fpc', passes'>> # <<fpc, passes>>

FinalNext ==
    \/ MainInitDevice \/ MainSetAdvInterval \/ MainSendInitialPayload
    \/ MainInitialRead \/ MainStatus \/ MainAppend \/ MainInterrupt \/ MainFinally
    \/ MainInterruptEarly

SpecFinal == FinalInit /\ [][FinalNext]_vars

\* main() is one sequential program: it takes its next step whenever it has
\* one (every serial read returns, after its timeout at the latest); an
\* interrupt may or may not come.
SpecFinalLive == SpecFinal /\ WF_<<fpc, passes>>(MainStep)

\* The append block of main() has run: append_payload was called and main()
\* has dealt with its result.
AppendStep == fpc = "append" /\ fpc' \in {"loop", "finally"}

\* Length in bytes of the text main() keeps as the local payload.
MirrorLen(local) == Len(Utf8Encode(local))

\* C8: every successful append of APPEND_INCREMENT bytes increases the
\* length of the local payload by exactly that many bytes and the round
\* count by exactly 1.
C8_AppendGrowsMirror ==
    [][(AppendStep /\ result'[1]) =>
            /\ MirrorLen(local_custom_payload')
                 = MirrorLen(local_custom_payload) + APPEND_INCREMENT
            /\ round_count' = round_count + 1]_vars

\* C9: when the read of the device's payload inside an append fails (it
\* returns no payload), the local payload and the offset after the append
\* are those before it.
C9_FailedReadKeepsState ==
    [][(AppendStep /\ append_details'[1] = << >>) =>
            /\ local_custom_payload' = local_custom_payload
            /\ current_text_offset' = current_text_offset]_vars

\* C10: when the SEAD command of an append fails, the local payload, the
\* offset and the round are unchanged, and main() holds the failing result.
C10_FailedCommandKeepsState ==
    [][(AppendStep /\ ~result'[1]) =>
            /\ local_custom_payload' = local_custom_payload
            /\ current_text_offset' = current_text_offset
            /\ round_count' = round_count
            /\ result'[2] # 0]_vars


-----------------------------------------------------------------------------
(* append_payload of ble_final_experiment.py, one call in its steps: the   *)
(* filler is taken and the offset advanced (lines 117-121), the device's   *)
(* payload is read (124), the SEAD command is built and sent (125-137).    *)
(* The device holds any payload when the call starts, and another writer   *)
(* may change it between the read and the write.                           *)

\* [length][FF][0900][data], the field append_payload builds (lines 131-134).
ManufacturerField(data) == Drop(SeadManufacturer(data), 12)

\* current_text_offset at the call: inside the message, around the em dash
\* (bytes 83-85), near and past the end of the 784 bytes of DEFAULT_MESSAGE.
AppendOffsets == {5, 77, 84, 770, 784, 800}
AppendSizes   == {APPEND_INCREMENT, 1}

\* What the device may hold: nothing; the initial field; a name field before
\* it; custom bytes that end inside a character; two manufacturer fields.
AppendHeld ==
    {<< >>,
     ManufacturerField(Utf8Encode(INITIAL_PAYLOAD_CUSTOM)),
     custom_adv_payload(Str(<<"S", "C">>), SHORTENED_LOCAL_NAME)
        \o ManufacturerField(Utf8Encode(INITIAL_PAYLOAD_CUSTOM)),
     ManufacturerField(<<103, 226, 128>>),
     ManufacturerField(Utf8Encode(INITIAL_PAYLOAD_CUSTOM))
        \o ManufacturerField(Utf8Encode(Take(DEFAULT_MESSAGE, 6)))}

\* The commands of the other writer: erase, append a field, erase and set.
WriterField == ManufacturerField(Utf8Encode(Str(<<"W", "2">>)))
WriterCommands ==
    {Str(<<"S", "E", "A", "D", ",", "T", "=", "0", "0", ",", "D", "=">>),
     Str(<<"S", "E", "A", "D", ",", "T", "=", "0", "1", ",", "D", "=">>) \o WriterField,
     Str(<<"S", "E", "A", "D", ",", "T", "=", "0", "0", ",", "D", "=">>) \o WriterField}

AppendInit ==
    /\ fpc = "take"
    /\ current_text_offset \in AppendOffsets
    /\ append_n \in AppendSizes
    /\ local_custom_payload = INITIAL_PAYLOAD_CUSTOM
    /\ ev_kit \in {[Link0 EXCEPT !.adv = a, !.open = TRUE] : a \in AppendHeld}
    /\ op = <<"append_payload">> /\ result = None
    /\ filler = << >> /\ append_details = << << >>, << >> >>
    /\ second_writer = << >>
    /\ round_count = 1 /\ current_custom_data_size = 0 /\ passes = 0
    /\ CodecIdle /\ ParserIdle /\ ThreadIdle

\* Lines 117-121: the filler from current_text_offset, the offset advanced.
AppendTake ==
    /\ fpc = "take"
    /\ filler' = Filler(current_text_offset, append_n)
    /\ current_text_offset' = current_text_offset + append_n
    /\ fpc' = "read"
    /\ UNCHANGED <<linkVars, local_custom_payload, round_count,
                   current_custom_data_size, append_details, passes, append_n,
                   second_writer, codecVars, parserVars, threadVars>>

\* Line 124: payload_details = get_adv_payload_details().
AppendRead ==
    /\ fpc = "read"
    /\ \E d \in get_adv_payload_details(ev_kit) :
          ev_kit' = d.k /\ append_details' = d.res
    /\ fpc' = "send"
    /\ UNCHANGED <<op, result, current_text_offset, local_custom_payload, round_count,
                   current_custom_data_size, filler, passes, append_n,
                   second_writer, codecVars, parserVars, threadVars>>

\* Another writer's command reaches the module between the read and the
\* write of this call (over a link of its own: no reply arrives here).
SecondWriter ==
    /\ fpc = "send" /\ second_writer = << >>
    /\ \E c \in WriterCommands :
          /\ second_writer' = c
          /\ ev_kit' = [ev_kit EXCEPT !.adv = ModuleExec(ev_kit, c, 0).adv]
    /\ UNCHANGED <<op, result, fpc, current_text_offset, local_custom_payload,
                   round_count, current_custom_data_size, filler, append_details,
                   passes, append_n, codecVars, parserVars, threadVars>>

\* The send step of an append_payload that builds its command from what the
\* device holds at the time of the write.
AppendSend_fresh ==
    /\ fpc = "send"
    /\ \E w \in send_custom_command_text([ev_kit EXCEPT !.io = << >>],
                    SeadManufacturer(Utf8Encode(parse_payload_unicode(
                                        <<ev_kit.adv, ParseFields(ev_kit.adv)>>))
                                     \o filler)) :
          ev_kit' = w.k /\ result' = w.res
    /\ fpc' = "returned"
    /\ UNCHANGED <<op, current_text_offset, local_custom_payload, round_count,
                   current_custom_data_size, filler, append_details, passes,
                   append_n, second_writer, codecVars, parserVars, threadVars>>

\* Lines 125-137: the device's custom data as read, the filler after it,
\* one manufacturer field, sent with SEAD,T=01.
AppendSend ==
    /\ fpc = "send"
    /\ \E w \in send_custom_command_text([ev_kit EXCEPT !.io = << >>],
                    SeadManufacturer(Utf8Encode(parse_payload_unicode(append_details))
                                     \o filler)) :
          ev_kit' = w.k /\ result' = w.res
    /\ fpc' = "returned"
    /\ UNCHANGED <<op, current_text_offset, local_custom_payload, round_count,
                   current_custom_data_size, filler, append_details, passes,
                   append_n, second_writer, codecVars, parserVars, threadVars>>

AppendNext == AppendTake \/ AppendRead \/ SecondWriter \/ AppendSend

SpecAppend == AppendInit /\ [][AppendNext]_vars

\* The bytes of the manufacturer field a payload holds (the first one), its
\* 2-byte company id stripped; none when the payload has no such field.
DeviceCustom(adv) ==
    LET fs   == ParseFields(adv)
        hits == {i \in 1..Len(fs) : fs[i][2] = MANUFACTURER_SPECIFIC_DATA}
    IN  IF hits = {} THEN << >> ELSE FromHex(Drop(fs[MinOf(hits)][3], 4))

\* The custom bytes of the SEAD command written last on link k (the write
\* before the last read).
SentCustom(k) ==
    LET packet == k.io[Len(k.io) - 1][2]
    IN  DeviceCustom(ParamValue(SubSeq(packet, 1, Len(packet) - 2), 68))

SendStep == fpc = "send" /\ fpc' = "returned"

\* C11: the custom payload append_payload sends is the custom payload the
\* device holds at the time of the read (its manufacturer field without the
\* company id) followed by the new bytes, whatever the device holds.
C11_SendsDeviceViewPlusNew ==
    [][(SendStep /\ second_writer = << >>) =>
            SentCustom(ev_kit') = DeviceCustom(ev_kit.adv) \o filler]_vars

\* The payload holds the field of the other writer.
HoldsWriterField(adv) ==
    \E i \in 1..Len(ParseFields(adv)) : ParseFields(adv)[i] = ParseFields(WriterField)[1]

\* The custom bytes append_payload made of the payload it read.
ReadCustom == Utf8Encode(parse_payload_unicode(append_details))

TakeStep == fpc = "take" /\ fpc' = "read"

\* C18: append_payload(n) takes exactly n new bytes, the bytes of the
\* message from current_text_offset with spaces where the message has run
\* out, advances current_text_offset by exactly n, and those n bytes are the
\* last n bytes of the custom data it sends.
C18_TakesExactlyN ==
    [][/\ TakeStep =>
            /\ Len(filler') = append_n
            /\ \A i \in 1..append_n :
                  filler'[i] = IF current_text_offset + i <= Len(DefaultMessageBytes)
                               THEN DefaultMessageBytes[current_text_offset + i]
                               ELSE 32
            /\ current_text_offset' = current_text_offset + append_n
       /\ SendStep =>
            /\ Len(SentCustom(ev_kit')) >= append_n
            /\ Drop(SentCustom(ev_kit'), Len(SentCustom(ev_kit')) - append_n) = filler
            /\ current_text_offset' = current_text_offset]_vars

C18_Witness ==
    /\ fpc = "returned" /\ append_n = APPEND_INCREMENT
    /\ current_text_offset = 770 + APPEND_INCREMENT
    /\ filler[14] = 46 /\ filler[15] = 32 /\ Len(filler) = APPEND_INCREMENT

-----------------------------------------------------------------------------
(* The session of ble_final_experiment.py: further properties *)

\* C12: after a successful append the local payload is the concatenation
\* sent to the device in that append (the device's view, then the new bytes).
C12_MirrorIsWhatWasSent ==
    [][(AppendStep /\ result'[1]) =>
            Utf8Encode(local_custom_payload') = SentCustom(ev_kit')]_vars

\* C13: the local payload is changed only by a successful append, and its
\* length never decreases (main() sends no erase command after init_device).
C13_MirrorOnlyGrowsByAppends ==
    [][/\ local_custom_payload' # local_custom_payload => (AppendStep /\ result'[1])
       /\ MirrorLen(local_custom_payload') >= MirrorLen(local_custom_payload)]_vars

\* The link's I/O of the last step holds no SEAD command.
NoSeadWritten(k) ==
    \A i \in 1..Len(k.io) :
        k.io[i][1] = "write" => Mnemonic(k.io[i][2]) # Str(<<"S", "E", "A", "D">>)

\* C14: after the first failed append the loop has ended: main() goes to its
\* finally clause, sends no further SEAD command, does not call
\* append_payload again, and the result it holds stays that of the failed
\* command.
C14_FailedAppendIsTerminal ==
    [][/\ (AppendStep /\ ~result'[1]) => fpc' = "finally"
       /\ (fpc \in {"finally", "done"} /\ ~result[1]) =>
              /\ fpc' \in {"finally", "done"}
              /\ result' = result
              /\ NoSeadWritten(ev_kit')]_vars

C14_Witness ==
    /\ fpc = "done" /\ round_count = 3
    /\ result[1] = FALSE /\ result[2] = 524
    /\ ~ev_kit.open

\* Values PAYLOAD_LIMIT may be configured to: the one of the file, and one
\* the custom data reaches within MAX_ROUNDS rounds.
ConfiguredLimits == {PAYLOAD_LIMIT, 100}

\* C15: for any configured payload-size limit, no append is attempted once
\* the payload size has reached the limit.
C15_NoAppendAtLimit ==
    [][\A limit \in ConfiguredLimits :
           current_custom_data_size >= limit => ~AppendStep]_vars

\* The link's I/O of the last step holds the write of this command.
Written(k, command) ==
    \E i \in 1..Len(k.io) : k.io[i] = <<"write", command \o CRLF>>

EraseCommand == Str(<<"S", "E", "A", "D", ",", "T", "=", "0", "0", ",", "D", "=">>)
InitialSetCommand == SeadManufacturer(Utf8Encode(INITIAL_PAYLOAD_CUSTOM))

\* The initial field is set only in the step after set_adv_interval, which
\* follows an init_device that has written the erase command.
EraseThenSet ==
    /\ (fpc' # fpc /\ fpc' = "set_adv_interval") =>
            (fpc = "init_device" /\ Written(ev_kit', EraseCommand))
    /\ (fpc' # fpc /\ fpc' = "send_initial_payload") => fpc = "set_adv_interval"
    /\ (ev_kit'.io # ev_kit.io /\ Written(ev_kit', InitialSetCommand)) =>
            fpc = "send_initial_payload"

\* C17: the command that sets the initial field is sent only after an erase
\* command (SEAD,T=00) has been sent, and when the loop starts the local
\* payload holds the content of that initial field.
C17_EraseThenSetThenMirror ==
    [][/\ EraseThenSet
       /\ (fpc = "initial_read" /\ fpc' = "loop") =>
              local_custom_payload' = INITIAL_PAYLOAD_CUSTOM]_vars

-----------------------------------------------------------------------------
(* get_adv_payload_details on a payload cut short: the hex payload of the  *)
(* reply is a prefix of the encoding of some fields, cut at any position.  *)

\* Field data for the cut payloads: none, one character of 1 or 3 bytes,
\* two characters, fifteen letters.
PrefixData ==
    {<< >>, <<0>>, <<8212>>, <<65, 8212>>, [i \in 1..15 |-> 65]}
PrefixFields == {<<t, d>> : t \in CodecTypes, d \in PrefixData}

\* The hex payload of the fields fs, one SEAD,T=01 per field.
Encoding(fs) == Concat([i \in 1..Len(fs) |-> custom_adv_payload(fs[i][2], fs[i][1])])

PrefixInit ==
    /\ cpc = "cut"
    /\ F \in UNION {[1..n -> PrefixFields] : n \in 1..MaxFields}
    /\ raw_payload \in {Take(Encoding(F), n) : n \in 0..Len(Encoding(F))}
    /\ fields = << >> /\ printed_fields = << >> /\ extracted = << >>
    /\ ParserIdle /\ LinkIdle /\ FinalIdle /\ ThreadIdle

\* Lines 950-991 on a response "D=<the cut payload>": the D= search, which
\* finds nothing when no hex digit follows, then the parsing loop.
DecodePrefix ==
    /\ cpc = "cut"
    /\ \E raw \in {PayloadSearch(Str(<<"D", "=">>) \o raw_payload)} :
          fields' = IF raw = << >> THEN << >> ELSE ParseFields(raw)
    /\ cpc' = "decoded_prefix"
    /\ UNCHANGED <<F, raw_payload, printed_fields, extracted, parserVars, linkVars, finalVars, threadVars>>

NotAvailable == Str(<<"N", "/", "A">>)

\* What get_display_text (lines 307-332) and print_adv_payload_details
\* (lines 1067-1087) show for one decoded field: for a manufacturer field
\* the first 4 hex characters as the company id, the rest as additional
\* data, and its text; for another field the text of its data.
display_field(field) ==
    LET data == field[3]
        text(hex) == IF FromHexRaises(hex) THEN NotAvailable ELSE Utf8Decode(FromHex(hex))
    IN  IF field[2] = MANUFACTURER_SPECIFIC_DATA
        THEN [company_id |-> Take(data, 4), additional_data |-> Drop(data, 4),
              unicode_repr |-> text(Drop(data, 4))]
        ELSE [company_id |-> << >>, additional_data |-> << >>, unicode_repr |-> text(data)]

\* The callers of the decoder on its result: parse_payload_unicode, and the
\* field by field display of get_display_text.
ExtractPrefix ==
    /\ cpc = "decoded_prefix"
    /\ extracted' = [custom |-> parse_payload_unicode(<<raw_payload, fields>>),
                     shown  |-> [i \in 1..Len(fields) |-> display_field(fields[i])]]
    /\ cpc' = "extracted_prefix"
    /\ UNCHANGED <<F, raw_payload, fields, printed_fields, parserVars, linkVars, finalVars, threadVars>>

PrefixNext == DecodePrefix \/ ExtractPrefix

SpecPrefix == PrefixInit /\ [][PrefixNext]_vars

\* The field the decoder returns for field i of F when nothing is cut.
WholeField(i) ==
    <<Len(FieldValue(F[i])) + 1, F[i][1], BytesToHex(FieldValue(F[i]))>>

IsPrefixOf(a, b) == Len(a) <= Len(b) /\ a = Take(b, Len(a))

\* C19: for every prefix of a valid encoding (cut anywhere: inside a length,
\* type or value byte, at an odd length) the decoder returns a list that is
\* a prefix of the fields of the whole encoding, the last field returned
\* possibly with only the first part of its data.
C19_PrefixDecodesToPrefix ==
    cpc = "decoded_prefix" =>
        /\ Len(fields) <= Len(F)
        /\ \A i \in 1..Len(fields) :
              /\ Len(fields[i]) = 3
              /\ fields[i][1] = WholeField(i)[1]
              /\ fields[i][2] = WholeField(i)[2]
              /\ IF i < Len(fields) THEN fields[i][3] = WholeField(i)[3]
                 ELSE IsPrefixOf(fields[i][3], WholeField(i)[3])

C19_Witness ==
    /\ cpc = "decoded_prefix" /\ Len(F) = 2 /\ Len(fields) = 2
    /\ Len(raw_payload) < Len(Encoding(F))
    /\ Len(raw_payload) % 2 = 1
    /\ fields[2][3] # << >> /\ fields[2][3] # WholeField(2)[3]

\* What get_adv_payload_details returns (lines 954, 991).
DecodeResult == <<raw_payload, fields>>

\* The last field returned has less data than its length byte claims.
Truncated ==
    /\ fields # << >>
    /\ Len(fields[Len(fields)][3]) < (fields[Len(fields)][1] - 1) * 2

\* C20: the result of the decoder carries a truncation flag, set when a
\* field claims more value bytes than remain and not set when every field
\* is complete.
C20_TruncationFlag ==
    cpc = "decoded_prefix" =>
        /\ Len(DecodeResult) >= 3
        /\ DecodeResult[3] = Truncated

\* What parse_payload_unicode returns when there is no manufacturer field.
NoCustomData == parse_payload_unicode(<< << >>, << >> >>)

\* The first manufacturer field of the decoded list (0: none).
FirstManufacturer ==
    LET hits == {i \in 1..Len(fields) : fields[i][2] = MANUFACTURER_SPECIFIC_DATA}
    IN  IF hits = {} THEN 0 ELSE MinOf(hits)

\* For a manufacturer field the first 2 bytes of the value are taken as the
\* company id and are no part of the payload extracted, and no extraction
\* raises.
CompanyIdSplitOff ==
    cpc = "extracted_prefix" =>
        /\ \A i \in 1..Len(fields) :
              fields[i][2] = MANUFACTURER_SPECIFIC_DATA =>
                  /\ extracted.shown[i].company_id = Take(fields[i][3], 4)
                  /\ extracted.shown[i].additional_data = Drop(fields[i][3], 4)
                  /\ extracted.shown[i].company_id \o extracted.shown[i].additional_data
                        = fields[i][3]
        /\ (FirstManufacturer # 0 /\ Len(fields[FirstManufacturer][3]) >= 4) =>
              \E rest \in {Drop(fields[FirstManufacturer][3], 4)} :
                  extracted.custom = IF FromHexRaises(rest) THEN DecodeError
                                     ELSE Utf8Decode(FromHex(rest))

\* C26: when a field of type FF is decoded the first 2 bytes of its value
\* are taken as the company id and are no part of the user payload
\* extracted; when the value has fewer than 2 bytes the company id is
\* reported as partial (what is extracted differs from what is extracted
\* when there is no manufacturer field) and nothing raises.
C26_CompanyIdOrPartial ==
    /\ CompanyIdSplitOff
    /\ (cpc = "extracted_prefix" /\ FirstManufacturer # 0
            /\ Len(fields[FirstManufacturer][3]) < 4) =>
          extracted.custom # NoCustomData

-----------------------------------------------------------------------------
(* The two decoders of evkit_lib.py, the parsing loop of                   *)
(* get_adv_payload_details and the one of print_adv_payload_details, on    *)
(* payloads that hold whole fields and then an end: nothing, one hex       *)
(* character, a length byte 00 with or without more behind it, or a field  *)
(* that is cut.                                                            *)

\* int(s, 16) raises ValueError.  The texts it is given here are the hex
\* digits of a payload, at most two of them: only the empty text raises.
IntRaises(s) == s = << >>

\* The parsing loop of print_adv_payload_details (lines 1038-1065) from
\* position pos with the fields found so far.
RECURSIVE PrintFieldsFrom(_, _, _)
PrintFieldsFrom(raw, pos, acc) ==
    IF ~(pos < Len(raw)) THEN acc
    ELSE LET length_hex == Slice(raw, pos, pos + 2)
         IN  IF IntRaises(length_hex) THEN acc
             ELSE LET field_length == ParseHex(length_hex)
                  IN  IF field_length = 0 THEN acc
                      ELSE LET ad_type_hex == Slice(raw, pos + 2, pos + 4)
                               ad_type == IF IntRaises(ad_type_hex) THEN 0
                                          ELSE ParseHex(ad_type_hex)
                               data_length == (field_length - 1) * 2
                               data_hex == Slice(raw, pos + 4, pos + 4 + data_length)
                           IN  PrintFieldsFrom(raw, pos + 4 + data_length,
                                   Append(acc, <<field_length, ad_type, data_hex>>))

\* The fields print_adv_payload_details prints for a response to GEAD that
\* reports success (lines 1017-1065): none without ",D=" or without payload.
print_adv_payload_details_fields(text) ==
    LET payload_marker == Str(<<",", "D", "=">>)
        at == Find(text, payload_marker)
    IN  IF at = 0 THEN << >>
        ELSE LET raw == Strip(Drop(text, at - 1 + Len(payload_marker)))
             IN  IF raw = << >> THEN << >> ELSE PrintFieldsFrom(raw, 0, << >>)

\* The response of the module to GEAD when it holds payload.
GeadResponse(payload) ==
    ModuleExec([Link0 EXCEPT !.adv = payload], Str(<<"G", "E", "A", "D">>), 0).reply

\* What follows the whole fields: nothing, one character, the length byte
\* 00 alone, 00 and one character, 00 and a whole field, 00 and a cut field.
StopTails ==
    { << >>,
      Str(<<"0">>), Str(<<"8">>), Str(<<"F">>),
      Str(<<"0", "0">>), Str(<<"0", "0", "8">>),
      Str(<<"0", "0", "0", "2", "0", "8", "4", "1">>),
      Str(<<"0", "0", "0", "3", "F", "F", "0", "9">>) }

\* Or a field that is cut: after its length byte, inside or after its type
\* byte, inside its value at an even and at an odd length.
CutTails ==
    { Str(<<"0", "5">>), Str(<<"0", "5", "3">>), Str(<<"0", "5", "0", "8">>),
      Str(<<"0", "5", "0", "8", "4", "1">>), Str(<<"0", "5", "0", "8", "4", "1", "4">>) }

StopInit ==
    /\ cpc = "stop_input"
    /\ F \in UNION {[1..n -> PrefixFields] : n \in 0..MaxFields}
    /\ raw_payload \in {Encoding(F) \o tail : tail \in StopTails \cup CutTails}
    /\ fields = << >> /\ printed_fields = << >> /\ extracted = << >>
    /\ ParserIdle /\ LinkIdle /\ FinalIdle /\ ThreadIdle

\* get_adv_payload_details on the response (lines 950-991).
StopDecode ==
    /\ cpc = "stop_input"
    /\ \E raw \in {PayloadSearch(GeadResponse(raw_payload))} :
          fields' = IF raw = << >> THEN << >> ELSE ParseFields(raw)
    /\ cpc' = "stop_decoded"
    /\ UNCHANGED <<F, raw_payload, printed_fields, extracted, parserVars, linkVars, finalVars, threadVars>>

\* print_adv_payload_details on the same response (lines 1017-1065).
StopPrint ==
    /\ cpc = "stop_decoded"
    /\ printed_fields' = print_adv_payload_details_fields(GeadResponse(raw_payload))
    /\ cpc' = "stop_printed"
    /\ UNCHANGED <<F, raw_payload, fields, extracted, parserVars, linkVars, finalVars, threadVars>>

StopNext == StopDecode \/ StopPrint

SpecStop == StopInit /\ [][StopNext]_vars

\* The fields of F as a decoder returns them.
WholeFields == [i \in 1..Len(F) |-> WholeField(i)]

\* The payload ends its whole fields with one character or a length byte 00.
EndsAtStop ==
    \E tail \in StopTails : tail # << >> /\ raw_payload = Encoding(F) \o tail

\* C21: where the length byte is 00, or where fewer than 2 hex characters
\* are left for it (one character included), decoding stops without adding
\* a field: the fields before that position are returned, nothing behind it
\* is decoded.  Both decoders of the library are held to it.
C21_StopsAtEndMark ==
    (cpc = "stop_printed" /\ EndsAtStop) =>
        /\ fields = WholeFields
        /\ printed_fields = WholeFields

\* The same for get_adv_payload_details alone.
DetailsStopAtEndMark ==
    (cpc \in {"stop_decoded", "stop_printed"} /\ EndsAtStop) => fields = WholeFields

\* C22: a field whose length byte is 1 decodes to a field of its type with
\* an empty value, and the field behind it is decoded from the position
\* right after the type byte.
C22_LengthOneIsEmptyField ==
    cpc \in {"stop_decoded", "stop_printed"} =>
        \A i \in 1..Len(F) :
            Len(FieldValue(F[i])) + 1 = 1 =>
                /\ Len(fields) >= i
                /\ fields[i] = <<1, F[i][1], << >> >>
                /\ i < Len(F) => (Len(fields) > i /\ fields[i + 1] = WholeField(i + 1))

C22_Witness ==
    /\ cpc = "stop_decoded" /\ Len(F) = 2
    /\ F[1] = <<SHORTENED_LOCAL_NAME, << >> >> /\ F[2][2] = <<65, 8212>>
    /\ SubSeq(raw_payload, 1, 6) = Str(<<"0", "1", "0", "8", "0", "5">>)
    /\ fields = << <<1, 8, << >> >>, <<5, 8, Str(<<"4", "1", "E", "2", "8", "0", "9", "4">>)>> >>

\* C37: the decoder of get_adv_payload_details and the one of
\* print_adv_payload_details return the same field list for every hex
\* payload, also one cut after a length byte, of odd length or with a
\* truncated last field.
C37_DecodersAgree ==
    cpc = "stop_printed" => printed_fields = fields

\* The fields print_adv_payload_details finds are those of
\* get_adv_payload_details, followed by at most one more field without
\* value.
PrintedFieldsExtendFields ==
    cpc = "stop_printed" =>
        \/ printed_fields = fields
        \/ /\ Len(printed_fields) = Len(fields) + 1
           /\ SubSeq(printed_fields, 1, Len(fields)) = fields
           /\ printed_fields[Len(printed_fields)][3] = << >>

\* The fields written again as length byte, type byte and value, in order.
RECURSIVE ReEncode(_)
ReEncode(fs) ==
    IF fs = << >> THEN << >>
    ELSE FormatHex(Head(fs)[1], 2) \o FormatHex(Head(fs)[2], 2) \o Head(fs)[3]
         \o ReEncode(Tail(fs))

\* C38: the fields get_adv_payload_details returns, written again in order
\* as length, type and value, give a prefix of the raw payload decoded;
\* every field has a length of at least 1 and a value of at most length - 1
\* bytes, of exactly length - 1 bytes when it is not the last.
C38_FieldsReEncodeToPrefix ==
    cpc \in {"stop_decoded", "stop_printed", "decoded_prefix", "extracted_prefix"} =>
        /\ IsPrefixOf(ReEncode(fields), raw_payload)
        /\ \A i \in 1..Len(fields) :
              /\ fields[i][1] >= 1
              /\ Len(fields[i][3]) <= 2 * (fields[i][1] - 1)
              /\ i < Len(fields) => Len(fields[i][3]) = 2 * (fields[i][1] - 1)

C38_Witness ==
    /\ cpc = "stop_decoded" /\ Len(F) = 1
    /\ raw_payload = Encoding(F) \o Str(<<"0", "5", "0", "8", "4", "1", "4">>)
    /\ Len(fields) = 2 /\ fields[1] = WholeField(1)
    /\ fields[2] = <<5, 8, Str(<<"4", "1", "4">>)>>

-----------------------------------------------------------------------------
(* The hex text the encoder emits for one field (SpecCodec). *)

IsUpperHexDigit(c) == c \in 48..57 \/ c \in 65..70

\* C23: for every field value the encoder emits the length byte as exactly
\* 2 uppercase hex digits equal to the number of value bytes + 1, then 2
\* hex digits of type and 2 hex digits per value byte: 2 * (value bytes + 2)
\* characters in all, with a length that fits one byte.
C23_LengthByteTwoDigits ==
    cpc = "encoded" =>
        \A i \in 1..Len(F) :
            \E h \in {custom_adv_payload(F[i][2], F[i][1])} :
            \E v \in {FieldValue(F[i])} :
                /\ Len(h) = 2 * (Len(v) + 2)
                /\ \A j \in 1..Len(h) : IsUpperHexDigit(h[j])
                /\ ParseHex(SubSeq(h, 1, 2)) = Len(v) + 1
                /\ Len(v) + 1 <= 255
                /\ SubSeq(h, 3, 4) = FormatHex(F[i][1], 2)
                /\ Drop(h, 4) = BytesToHex(v)

\* The same for the values whose length fits the length byte.
EmitsWellFormedFields ==
    cpc = "encoded" =>
        \A i \in 1..Len(F) :
            \E h \in {custom_adv_payload(F[i][2], F[i][1])} :
            \E v \in {FieldValue(F[i])} :
                Len(v) + 1 <= 255 =>
                    /\ Len(h) = 2 * (Len(v) + 2)
                    /\ \A j \in 1..Len(h) : IsUpperHexDigit(h[j])
                    /\ ParseHex(SubSeq(h, 1, 2)) = Len(v) + 1
                    /\ SubSeq(h, 3, 4) = FormatHex(F[i][1], 2)
                    /\ Drop(h, 4) = BytesToHex(v)

\* The command line of the last write of the call made on the link.
LastCommand(k) ==
    LET packet == k.io[Len(k.io) - 1][2]
    IN  SubSeq(packet, 1, Len(packet) - 2)

\* set_custom_adv_payload was called for a manufacturer field with the
\* text "AB".
BuildsAB ==
    /\ op[1] = "set_custom_adv_payload"
    /\ op[2] = Str(<<"A", "B">>) /\ op[3] = MANUFACTURER_SPECIFIC_DATA

SeadAppend == Str(<<"S", "E", "A", "D", ",", "T", "=", "0", "1", ",", "D", "=">>)

\* C24 (as stated): a manufacturer field built with company id 0900 and
\* payload AB is sent as 03FF0900AB: length 03, type FF, value 0900AB.
C24_EncodesTo03FF0900AB ==
    BuildsAB =>
        LastCommand(ev_kit) = SeadAppend \o Str(<<"0", "3", "F", "F", "0", "9", "0", "0", "A", "B">>)

\* C24 (as the encoder does it): a manufacturer field built with company
\* id 0900 and the payload "AB" is sent as 05FF09004142: the value is the
\* company id and the bytes 41 42 of the text, the length byte is the four
\* value bytes + 1, the type is FF.
C24_EncodesTo05FF09004142 ==
    BuildsAB =>
        /\ LastCommand(ev_kit) = SeadAppend \o Str(<<"0", "5", "F", "F", "0", "9", "0", "0", "4", "1", "4", "2">>)
        /\ \E fs \in {ParseFields(Drop(LastCommand(ev_kit), Len(SeadAppend)))} :
              /\ Len(fs) = 1
              /\ fs[1] = <<5, 255, Str(<<"0", "9", "0", "0", "4", "1", "4", "2">>)>>
              /\ FromHex(fs[1][3]) = <<9, 0, 65, 66>>

C24_Witness ==
    /\ BuildsAB /\ op[4] /\ result[1]
    /\ ev_kit.adv = Str(<<"0", "5", "F", "F", "0", "9", "0", "0", "4", "1", "4", "2">>)

\* C25: for every total_payload_bytes >= 3 set_smart_manufacturer_payload
\* sends one manufacturer field whose length byte is total_payload_bytes
\* and whose additional data, behind the company id, is exactly
\* total_payload_bytes - 3 bytes.
C25_SmartPayloadFitsSize ==
    (op[1] = "set_smart_manufacturer_payload" /\ op[2] >= 3) =>
        /\ Take(LastCommand(ev_kit), Len(SeadAppend)) = SeadAppend
        /\ \E fs \in {ParseFields(Drop(LastCommand(ev_kit), Len(SeadAppend)))} :
              /\ Len(fs) = 1
              /\ fs[1][1] = op[2]
              /\ fs[1][2] = MANUFACTURER_SPECIFIC_DATA
              /\ Take(fs[1][3], 4) = company_id
              /\ Len(Drop(fs[1][3], 4)) = 2 * (op[2] - 3)

\* The same for the sizes whose text holds no character of more than one
\* byte (the first is character 84 of the base message).
SmartPayloadFitsAsciiSize ==
    (op[1] = "set_smart_manufacturer_payload" /\ op[2] >= 3 /\ op[2] - 3 <= 83) =>
        \E fs \in {ParseFields(Drop(LastCommand(ev_kit), Len(SeadAppend)))} :
              /\ Len(fs) = 1
              /\ fs[1][1] = op[2]
              /\ Len(Drop(fs[1][3], 4)) = 2 * (op[2] - 3)

\* The I parameter of the SACP command set_adv_interval wrote (the second
\* of its three commands).
SentInterval(k) == ParamValue(SubSeq(k.io[3][2], 1, Len(k.io[3][2]) - 2), 73)

AcceptedInterval == op[1] = "set_adv_interval" /\ op[2] >= 20 /\ op[2] <= 10240

\* C27: for every accepted interval set_adv_interval sends I as exactly 4
\* uppercase hex digits whose value is the interval in units of 0.625 ms,
\* rounded to the nearest unit (100 ms: 160, sent as 00A0), and lies
\* within 0x0020..0x4000.
C27_IntervalInUnits ==
    AcceptedInterval =>
        /\ Len(ev_kit.io) = 6 /\ ev_kit.io[3][1] = "write"
        /\ Mnemonic(SubSeq(ev_kit.io[3][2], 1, Len(ev_kit.io[3][2]) - 2))
             = Str(<<"S", "A", "C", "P">>)
        /\ \E I \in {SentInterval(ev_kit)} :
              /\ Len(I) = 4
              /\ \A j \in 1..4 : IsUpperHexDigit(I[j])
              /\ 10 * ParseHex(I) - 16 * op[2] < 5
              /\ 16 * op[2] - 10 * ParseHex(I) < 5
              /\ ParseHex(I) >= 32 /\ ParseHex(I) <= 16384
              /\ op[2] = 100 => I = Str(<<"0", "0", "A", "0">>)

C27_Witness ==
    /\ AcceptedInterval /\ op[2] = 21 /\ result[1]
    /\ SentInterval(ev_kit) = Str(<<"0", "0", "2", "2">>)
    /\ ParamValue(Str(<<"S", "A", "C", "P", ",">>) \o ev_kit.acp, 73) = Str(<<"0", "0", "2", "2">>)

\* The call made fails the validation of its argument.
RejectedCall(call) ==
    \/ call[1] = "set_adv_interval" /\ (call[2] < 20 \/ call[2] > 10240)
    \/ call[1] = "set_smart_manufacturer_payload" /\ call[2] < 3

\* C28: a request that fails the validation of its argument writes nothing:
\* set_adv_interval outside 20..10240 ms and set_smart_manufacturer_payload
\* below 3 bytes return a failure and leave the link as it was, with no
\* write (of the stop-advertising command or any other) and no read.
C28_RejectedWritesNothing ==
    [][(op = <<"none">> /\ RejectedCall(op')) =>
            /\ ~result'[1] /\ result'[2] # 0
            /\ ev_kit' = ev_kit
            /\ ev_kit'.io = << >>]_vars

C28_Witness ==
    /\ op = <<"set_smart_manufacturer_payload", 2>>
    /\ ~result[1] /\ result[3] = PayloadTooSmall
    /\ ev_kit.io = << >> /\ ev_kit.rx # << >> /\ ev_kit.adv # << >>

\* The error code of a request rejected by the validation of its argument
\* (0xEEEE).
RejectionCode == 61166

\* C29: the error code of a rejection by validation is distinct from the
\* codes that come from the device: no response text makes a command result
\* carry it.
C29_RejectionCodeNotFromDevice ==
    ppc = "parsed" => parsed[2] # RejectionCode

\* The text the one read of a call returned, when the call found the link as
\* k, left it as k2 and the module answered with reply: the bytes pending
\* after the write that are no longer pending.
ReadOf(k, k2, reply) ==
    Take(k.rx \o reply, Len(k.rx \o reply) - Len(k2.rx))

\* raw is a hex payload found in text: the hex digits that follow a "D=",
\* up to the first character that is no hex digit.
FoundIn(raw, text) ==
    \E p \in 1..Len(text) :
        /\ p + 1 + Len(raw) <= Len(text) /\ Len(raw) > 0
        /\ text[p] = 68 /\ text[p + 1] = 61
        /\ SubSeq(text, p + 2, p + 1 + Len(raw)) = raw
        /\ \A j \in 1..Len(raw) : IsHexDigit(raw[j])
        /\ p + 2 + Len(raw) <= Len(text) => ~IsHexDigit(text[p + 2 + Len(raw)])

HasPayload(text) ==
    \E p \in 1..Len(text) :
        p + 2 <= Len(text) /\ text[p] = 68 /\ text[p + 1] = 61 /\ IsHexDigit(text[p + 2])

\* C30: get_adv_payload_details returns ("", []) whenever the GEAD command
\* fails or its response holds no D=<hex> payload; otherwise it returns the
\* hex payload as found in the response and the fields decoded from it.
C30_EmptyOrPayloadAsFound ==
    [][(op = <<"none">> /\ op' = <<"get_adv_payload_details">>) =>
          \E s \in DeviceStatuses :
              /\ (s = 0) = (ev_kit'.errors = ev_kit.errors)
              /\ \E text \in {ReadOf(ev_kit, ev_kit',
                                     ModuleExec(ev_kit, Str(<<"G", "E", "A", "D">>), s).reply)} :
                    IF ~extract_error_code(text)[1] \/ ~HasPayload(text)
                    THEN result' = << << >>, << >> >>
                    ELSE /\ FoundIn(result'[1], text)
                         /\ result'[2] = ParseFields(result'[1])]_vars

C30_Witness ==
    /\ op = <<"get_adv_payload_details">>
    /\ result[1] \in HeldPayloads /\ Len(result[2]) = 2
    /\ result[2][2] = <<8, 255, Str(<<"0", "9", "0", "0", "4", "4", "6", "9", "7", "6", "6", "9", "6", "E">>)>>

-----------------------------------------------------------------------------
(* The rounds of ble_final_experiment.py (SpecFinal). *)

\* C31: with the initial payload as round 1, appends are made only in
\* rounds 2 to MAX_ROUNDS: append_payload is called at most MAX_ROUNDS - 1
\* times (the call made with round counter r is the r-th) and the round
\* counter never exceeds MAX_ROUNDS.
C31_AppendsInRounds2ToMax ==
    [][/\ AppendStep => round_count <= MAX_ROUNDS - 1
       /\ round_count' <= MAX_ROUNDS]_vars

\* What the loop does: append_payload is called at most MAX_ROUNDS times
\* and the round counter never exceeds MAX_ROUNDS + 1.
AppendsInRounds1ToMax ==
    [][/\ AppendStep => round_count <= MAX_ROUNDS
       /\ round_count' <= MAX_ROUNDS + 1]_vars

-----------------------------------------------------------------------------
(* get_gacp_details (Spec). *)

\* The parameters the module holds, each K=V split at its first '='.
HeldParameters(k) ==
    LET parts == SplitCommas(k.acp)
        eq(part) == MinOf({i \in 1..Len(part) : part[i] = 61})
    IN  [i \in 1..Len(parts) |->
            <<SubSeq(parts[i], 1, eq(parts[i]) - 1),
              SubSeq(parts[i], eq(parts[i]) + 1, Len(parts[i]))>>]

\* The read of get_gacp_details returned the whole reply to GACP and
\* nothing else.
WholeGacpReply ==
    result[4] = ModuleExec(ev_kit, Str(<<"G", "A", "C", "P">>), 0).reply

\* C32: on a successful parameter read get_gacp_details returns as fields
\* exactly the K=V parameters of the reply, in reply order, each split at
\* its first '=' into (key, value), and no entry that is not a parameter.
C32_FieldsAreTheParameters ==
    (op[1] = "get_gacp_details" /\ result[1]) =>
        /\ \A i \in 1..Len(result[3]) : result[3][i][2] # None
        /\ WholeGacpReply => result[3] = HeldParameters(ev_kit)

\* What the function returns for a whole reply: the status field of the
\* reply as a first entry without value, then the parameters.
FieldsAreStatusThenParameters ==
    (op[1] = "get_gacp_details" /\ result[1] /\ WholeGacpReply) =>
        result[3] = << <<Str(<<"0", "0", "0", "0">>), None>> >> \o HeldParameters(ev_kit)

-----------------------------------------------------------------------------
(* The order of the commands of the library functions (Spec). *)

\* The I/O of a call that wrote the given command lines, each followed by
\* one read.
Exchanges(commands) ==
    [i \in 1..(2 * Len(commands)) |->
        IF i % 2 = 1 THEN <<"write", commands[(i + 1) \div 2] \o CRLF>>
        ELSE <<"read", read_buffer_size>>]

\* The names of the 15 parameters of SACP, in the order of the command.
SacpNames == Str(<<"P", "M", "T", "H", "I", "C", "L", "O", "F", "A", "Y", "E", "S", "D", "N">>)

\* command is SACP with the 15 named parameters, each with a value.
IsFullSacp(command) ==
    /\ Mnemonic(command) = Str(<<"S", "A", "C", "P">>)
    /\ \E parts \in {SplitCommas(command)} :
          /\ Len(parts) = 16
          /\ \A i \in 1..15 :
                /\ Len(parts[i + 1]) > 2
                /\ parts[i + 1][1] = SacpNames[i] /\ parts[i + 1][2] = 61

\* The SACP command of extended_adv_config() with its default arguments.
DefaultSacp == SacpCommand(Str(<<"0", "0", "A", "0">>))

\* C33: extended_adv_config always makes three exchanges in this order:
\* /CAX, SACP with all 15 named parameters, /CA; /CA is sent whether or not
\* SACP succeeded, and the result returned is that of the SACP exchange:
\* when no bytes were pending and every read came in time, it is the
\* module's reply to SACP, a failure exactly when the module refused SACP.
C33_StopSetStart ==
    [][(op = <<"none">> /\ op'[1] = "extended_adv_config") =>
          /\ ev_kit'.io = Exchanges(<<Str(<<"/", "C", "A", "X">>), DefaultSacp,
                                      Str(<<"/", "C", "A">>)>>)
          /\ IsFullSacp(DefaultSacp)
          /\ (ev_kit.rx = << >> /\ ev_kit'.faults = ev_kit.faults) =>
                \E s \in DeviceStatuses :
                    /\ (s = 0) = (ev_kit'.acp = Drop(DefaultSacp, 5))
                    /\ result'[3] = ModuleExec(ev_kit, DefaultSacp, s).reply
                    /\ result'[2] = s /\ result'[1] = (s = 0)]_vars

C33_Witness ==
    /\ op[1] = "extended_adv_config" /\ ~result[1] /\ result[2] = 524
    /\ Len(ev_kit.io) = 6 /\ ev_kit.io[5] = <<"write", Str(<<"/", "C", "A">>) \o CRLF>>
    /\ ev_kit.acp = FactoryAcp /\ ev_kit.faults = 0

SeadErase == Str(<<"S", "E", "A", "D", ",", "T", "=", "0", "0", ",", "D", "=">>)

\* C34: set_custom_adv_payload with append=False sends exactly two
\* commands, the erase command SEAD,T=00,D= and then SEAD,T=01 with the
\* field; with append=True it sends the SEAD,T=01 command alone; the result
\* returned is that of the SEAD,T=01 exchange: when no bytes were pending
\* and every read came in time, it is the module's reply to that command, a
\* failure exactly when the module did not take the field.
C34_EraseThenAppend ==
    [][(op = <<"none">> /\ op'[1] = "set_custom_adv_payload") =>
          \E field \in {custom_adv_payload(op'[2], op'[3])} :
              /\ ev_kit'.io = Exchanges(IF op'[4] THEN <<SeadAppend \o field>>
                                         ELSE <<SeadErase, SeadAppend \o field>>)
              /\ (ev_kit.rx = << >> /\ ev_kit'.faults = ev_kit.faults) =>
                    \E s \in DeviceStatuses :
                        /\ (s = 0) = (ev_kit'.adv \in {ev_kit.adv \o field, field})
                        /\ result'[3] = ModuleExec(ev_kit, SeadAppend \o field, s).reply
                        /\ result'[2] = s /\ result'[1] = (s = 0)]_vars

C34_Witness ==
    /\ op[1] = "set_custom_adv_payload" /\ ~op[4] /\ result[1]
    /\ Len(ev_kit.io) = 4 /\ ev_kit.io[1] = <<"write", SeadErase \o CRLF>>
    /\ ev_kit.errors = 1 /\ Len(ev_kit.adv) > Len(custom_adv_payload(op[2], op[3]))

\* The command of set_device_name_extended(device_name).
NameCommand(device_name) ==
    Str(<<"S", "E", "A", "D", ",", "T", "=", "1", ",", "D", "=">>)
    \o FormatHex(Len(Utf8Encode(device_name)) + 1, 2) \o Str(<<"0", "8">>)
    \o BytesToHex(Utf8Encode(device_name))

\* The commands of the four steps of init_device, step by step.
InitSteps(device_name) ==
    << <<Str(<<"/", "R", "B", "T">>)>>,
       <<Str(<<"/", "C", "A", "X">>), DefaultSacp, Str(<<"/", "C", "A">>)>>,
       <<SeadErase>>,
       <<NameCommand(device_name)>> >>

\* The command whose result is the result of each step.
InitDeciding(device_name) ==
    <<Str(<<"/", "R", "B", "T">>), DefaultSacp, SeadErase, NameCommand(device_name)>>

\* The command lines the module refused during the step from k to k2.
RefusedIn(k, k2) ==
    {k2.refused[i] : i \in (Len(k.refused) + 1)..Len(k2.refused)}

\* C35: init_device runs its steps in the order reboot, advertising
\* parameters, erase, device name and stops at the first step whose result
\* is a failure: it returns False and sends no command of a later step, and
\* returns True only when all four steps returned success.  The commands
\* written are those of the first n steps, n = 4 when it returns True; when
\* nothing was pending and every read came in time, n is the first step
\* whose command the module refused, and the result is True exactly when
\* the module refused none of the four.
C35_StopsAtFirstFailure ==
    [][(op = <<"none">> /\ op'[1] = "init_device") =>
          \E steps \in {InitSteps(op'[2])} : \E deciding \in {InitDeciding(op'[2])} :
              /\ \E n \in 1..4 :
                    /\ ev_kit'.io = Exchanges(Concat(SubSeq(steps, 1, n)))
                    /\ result' = TRUE => n = 4
                    /\ n < 4 => result' = FALSE
                    /\ (ev_kit.rx = << >> /\ ev_kit'.faults = ev_kit.faults) =>
                          /\ \A m \in 1..(n - 1) : deciding[m] \notin RefusedIn(ev_kit, ev_kit')
                          /\ result' = (deciding[n] \notin RefusedIn(ev_kit, ev_kit'))
              /\ ev_kit'.open]_vars

C35_Witness ==
    /\ op[1] = "init_device" /\ result = FALSE
    /\ ev_kit.refused = <<SeadErase>> /\ ev_kit.faults = 0
    /\ Len(ev_kit.io) = 10 /\ ev_kit.io[9] = <<"write", SeadErase \o CRLF>>
    /\ ev_kit.open

\* The success flag and error code extract_error_code finds in the module's
\* reply to the command written in the step from k to k2, or in the part of
\* it that one read returned.
OwnReplyResults(k, k2, command) ==
    UNION { {extract_error_code(Take(ModuleExec(k, command, s).reply, n)) :
                n \in 0..Len(ModuleExec(k, command, s).reply)} :
            s \in {t \in DeviceStatuses : (t = 0) = (k2.refused = k.refused)} }

\* C36: the result of send_custom_command_text(c) is computed from the
\* module's reply to c, never from the reply to an earlier command that
\* was still on its way when the earlier read returned.
C36_ResultFromOwnReply ==
    [][(op = <<"none">> /\ op'[1] = "send_custom_command_text") =>
          <<result'[1], result'[2]>> \in OwnReplyResults(ev_kit, ev_kit', op'[2])]_vars

\* The same with nothing pending when the command is written.
ResultFromOwnReplyWhenNonePending ==
    [][(op = <<"none">> /\ op'[1] = "send_custom_command_text" /\ ev_kit.rx = << >>) =>
          <<result'[1], result'[2]>> \in OwnReplyResults(ev_kit, ev_kit', op'[2])]_vars

\* The custom bytes of the payload append_payload read: the whole bytes of
\* the first field of type FF whose data starts with the company id.
ReadCustomBytes ==
    LET fs   == append_details[2]
        hits == {i \in 1..Len(fs) : fs[i][2] = MANUFACTURER_SPECIFIC_DATA
                                    /\ StartsWith(fs[i][3], company_id)}
    IN  IF hits = {} THEN << >> ELSE FromHex(Drop(fs[MinOf(hits)][3], 4))

\* The custom bytes sent in front of the filler.
SentBeforeFiller(k) == Take(SentCustom(k), Len(SentCustom(k)) - Len(filler))

\* C39: every byte of the custom payload append_payload sends is a byte of
\* the custom payload it read from the device or of the filler taken from
\* the message; no placeholder or error text made while the payload read
\* was extracted is sent, whatever the read returned.
C39_SendsOnlyReadOrSource ==
    [][SendStep =>
          /\ SentCustom(ev_kit') = SentBeforeFiller(ev_kit') \o filler
          /\ \A i \in 1..Len(SentBeforeFiller(ev_kit')) :
                \E j \in 1..Len(ReadCustomBytes) :
                    SentBeforeFiller(ev_kit')[i] = ReadCustomBytes[j]]_vars

\* The placeholder of parse_payload_unicode is sent as payload.
SendsDecodeError ==
    /\ fpc = "returned"
    /\ SentCustom(ev_kit) = Utf8Encode(DecodeError) \o filler

\* When the bytes read are whole and well-formed UTF-8 they are sent as
\* read.
SendsReadWhenWellFormed ==
    [][(SendStep /\ ~FromHexRaises(append_details[1])
                 /\ Utf8Encode(Utf8Decode(ReadCustomBytes)) = ReadCustomBytes) =>
          SentCustom(ev_kit') = ReadCustomBytes \o filler]_vars

\* C40: once the connection has been opened, the program closes it on every
\* path on which it ends: failed initialization, failed interval or initial
\* payload, failed append, round limit, interrupt.
C40_EveryEndCloses == ev_kit.open ~> ~ev_kit.open

\* The ends of the program reached from inside the try statement, and the
\* ends after a failed set_adv_interval or send_initial_payload, close it.
ClosesFromTry ==
    (fpc \in {"loop", "append", "finally", "interrupted"})
        ~> (fpc = "done" /\ ~ev_kit.open)

ClosesOnLaterFailure ==
    [][(fpc \in {"set_adv_interval", "send_initial_payload"} /\ fpc' = "exit")
          => ~ev_kit'.open]_vars

\* The program has ended after a failed init_device, the port open.
EndedOpenAfterInit ==
    fpc = "exit" /\ ev_kit.open /\ Len(ev_kit.io) = 2

\* The program has ended by an interrupt outside the try statement.
EndedOpenUncaught ==
    fpc = "uncaught" /\ ev_kit.open
====
